---------------------------- MODULE Spec2Model ----------------------------
(* A state-machine model of the video editor front end: the Editor page   *)
(* (session state), the CropOverlay and OverlayVideo region gestures, the *)
(* VideoPlayer drop target and the PropertyPanel job submit/poll loop.    *)
(*                                                                        *)
(* Numbers.  Pixel quantities are integers.  A JavaScript number that is  *)
(* a quotient (a pointer delta divided by the display scale) is kept as   *)
(* an exact fraction n/d until the code rounds it.  Times are counted in  *)
(* ticks of 1/300 s, so that 0.1 s, 0.01 s and 1/30 s are whole numbers;  *)
(* floating-point rounding error of the arithmetic is not modelled.       *)
EXTENDS Integers, Sequences, FiniteSets, TLC

-----------------------------------------------------------------------------
(* Units and JavaScript arithmetic                                         *)

TicksPerSecond == 3 * 100
Tenth == TicksPerSecond \div 10
Hundredth == TicksPerSecond \div 100

NULL == [null |-> TRUE]

Min(a, b) == IF a < b THEN a ELSE b
Max(a, b) == IF a > b THEN a ELSE b

\* Math.round(n / d) for d > 0: the nearest integer, halves towards +infinity.
Round(n, d) == (2 * n + d) \div (2 * d)

\* v?.id
IdOf(v) == IF v = NULL THEN "undefined" ELSE v.id

-----------------------------------------------------------------------------
(* Bounds of the model                                                     *)

\* how many jobs the user submits in one run
MaxJobs == 1
\* the poll counter of a job saturates here (the loop itself is not bounded)
MaxPolls == 2

-----------------------------------------------------------------------------
(* Program constants                                                       *)

minSize == 20
overlayMinSize == 50


-----------------------------------------------------------------------------
(* The media the storage service can hand back on upload (VideoFile)       *)

VideoA ==
    [id |-> "a", duration |-> 2 * TicksPerSecond, width |-> 64, height |-> 48,
     fps |-> 25, frameCount |-> 50, format |-> "mp4",
     sourceType |-> "upload", parentId |-> "undefined"]
VideoB ==
    [id |-> "b", duration |-> TicksPerSecond, width |-> 32, height |-> 24,
     fps |-> 30, frameCount |-> 30, format |-> "mov",
     sourceType |-> "upload", parentId |-> "undefined"]
VideoC ==
    [id |-> "c", duration |-> 3 * TicksPerSecond, width |-> 16, height |-> 12,
     fps |-> 30, frameCount |-> 90, format |-> "webm",
     sourceType |-> "upload", parentId |-> "undefined"]

-----------------------------------------------------------------------------
(* State                                                                   *)

VideoD ==
    [id |-> "d", duration |-> 2 * TicksPerSecond, width |-> 160,
     height |-> 120, fps |-> 25, frameCount |-> 50, format |-> "mp4",
     sourceType |-> "upload", parentId |-> "undefined"]

VARIABLES
    \* Editor (pages/Editor)
    allVideos, mainVideo, previewVideo, selectedMaterial, mode,
    duration, startTime, endTime, currentTime,
    cropArea, overlayPosition, videoDisplaySize,
    \* window.__draggedVideo
    draggedVideo,
    \* uploads in flight: the closure of each awaiting upload handler
    uploads,
    \* VideoPlayer: its currentTime and duration state, and whether the
    \* <video> element still has to report its metadata
    playerTime, playerDuration, metadataPending,
    \* VideoPlayer: its playing state, and the currentTime of its <video>
    playing, videoTime,
    \* CropOverlay component state
    dragging, resizing, dragStart, initialArea,
    \* OverlayVideo component state
    isDragging, isResizing, overlayDragStart, resizeStart,
    \* OverlayVideo: the corner handle the pressed mouse button went down on
    \* (the target of the mousedown event), "none" when no handle is held
    resizeTarget,
    \* OverlayVideo: its isPlaying state, and the currentTime and paused of
    \* its <video>
    isPlaying, overlayCurrentTime, overlayPaused,
    \* PropertyPanel component state, its async closures, the last toast
    processing, task, jobs, lastMessage

editorVars ==
    <<allVideos, mainVideo, previewVideo, selectedMaterial, mode, duration,
      startTime, endTime, currentTime, cropArea, overlayPosition,
      videoDisplaySize>>
cropVars == <<dragging, resizing, dragStart, initialArea>>
overlayVars ==
    <<isDragging, isResizing, overlayDragStart, resizeStart, resizeTarget>>
panelVars == <<processing, task, jobs, lastMessage>>
playerVars ==
    <<playerTime, playerDuration, metadataPending, playing, videoTime>>
syncVars == <<isPlaying, overlayCurrentTime, overlayPaused>>
vars ==
    <<editorVars, draggedVideo, uploads, playerVars, cropVars, overlayVars,
      syncVars, panelVars>>

-----------------------------------------------------------------------------
(* What is rendered                                                        *)

\* Editor: const displayVideo = previewVideo || mainVideo
displayVideo == IF previewVideo # NULL THEN previewVideo ELSE mainVideo

\* Editor renders <VideoPlayer> only when there is a main video
PlayerMounted == mainVideo # NULL

\* Editor renders <CropOverlay> inside the player under this condition
CropMounted ==
    /\ PlayerMounted
    /\ mode = "crop"
    /\ videoDisplaySize.width > 0
    /\ displayVideo # NULL
    /\ displayVideo.id = IdOf(mainVideo)

\* VideoPlayer renders <OverlayVideo> under this condition
OverlayMounted ==
    /\ PlayerMounted
    /\ mode = "merge"
    /\ selectedMaterial # NULL
    /\ overlayPosition # NULL
    /\ videoDisplaySize.width > 0

\* OverlayVideo: whether the overlay is shown, from its props mainVideoTime
\* (the player's currentTime state), overlayStartTime (the Editor's
\* startTime) and mainVideoDuration (the player's duration state)
overlayEndTime == Min(startTime + selectedMaterial.duration, playerDuration)
shouldShowClosed == playerTime >= startTime /\ playerTime <= overlayEndTime
shouldShow == playerTime >= startTime /\ playerTime < overlayEndTime

\* OverlayVideo: the style of the overlay's box
overlayStyle ==
    [opacity |-> IF shouldShow THEN 1 ELSE 0,
     pointerEvents |-> IF shouldShow THEN "auto" ELSE "none"]

\* Math.abs
Abs(n) == IF n < 0 THEN -n ELSE n

\* 0.3 s
syncTolerance == 3 * Tenth

\* The effect that synchronises the overlay's <video>: what its currentTime
\* and paused are after the effect ran with this shouldShow, this
\* expectedOverlayTime and this isPlaying, from what they were
syncEffectNoHide(show, expectedOverlayTime, flag, time, paused) ==
    [currentTime |-> IF ~show THEN time
                     ELSE IF ~flag THEN expectedOverlayTime
                     ELSE IF Abs(time - expectedOverlayTime) > syncTolerance
                          THEN expectedOverlayTime ELSE time,
     paused |-> IF show /\ flag /\ paused THEN FALSE
                ELSE IF show /\ ~flag /\ ~paused THEN TRUE ELSE paused]
syncEffect(show, expectedOverlayTime, flag, time, paused) ==
    IF show
    THEN [currentTime |->
              IF ~flag THEN expectedOverlayTime
              ELSE IF Abs(time - expectedOverlayTime) > syncTolerance
                   THEN expectedOverlayTime
              ELSE time,
          paused |->
              IF flag /\ paused THEN FALSE
              ELSE IF ~flag /\ ~paused THEN TRUE
              ELSE paused]
    ELSE [currentTime |-> time, paused |-> TRUE]

\* The OverlayVideo after a render of the player, when the calls made on
\* its ref left isPlaying as `flag` and the currentTime of its <video> as
\* `time`.  An OverlayVideo that is mounted starts with isPlaying false and
\* a paused <video> at 0 and runs the effect; a <video> that gets another
\* src is reset; the effect runs again when one of its dependencies
\* (mainVideoTime, overlayStartTime, shouldShow, isPlaying) changed.
Sync(flag, time) ==
    IF ~OverlayMounted'
    THEN /\ isPlaying' = FALSE
         /\ overlayCurrentTime' = 0
         /\ overlayPaused' = TRUE
    ELSE LET fresh == ~OverlayMounted
             reloaded == ~fresh /\ selectedMaterial'.id # selectedMaterial.id
             f == IF fresh THEN FALSE ELSE flag
             t == IF fresh \/ reloaded THEN 0 ELSE time
             p == IF fresh \/ reloaded THEN TRUE ELSE overlayPaused
             changed == \/ fresh
                        \/ playerTime' # playerTime
                        \/ startTime' # startTime
                        \/ shouldShow' # shouldShow
                        \/ f # isPlaying
             after == IF changed
                      THEN syncEffect(shouldShow', playerTime' - startTime',
                                      f, t, p)
                      ELSE [currentTime |-> t, paused |-> p]
         IN  /\ isPlaying' = f
             /\ overlayCurrentTime' = after.currentTime
             /\ overlayPaused' = after.paused

\* A component that is not rendered loses its state; a <video> element that
\* is created or gets another src reports its metadata once more, and the
\* player's effect on video?.url then loads it and sets playing false and
\* currentTime 0.
Rerender ==
    /\ playerTime' =
          IF PlayerMounted /\ PlayerMounted'
             /\ IdOf(displayVideo') = IdOf(displayVideo)
          THEN playerTime ELSE 0
    /\ playing' =
          IF PlayerMounted /\ PlayerMounted'
             /\ IdOf(displayVideo') = IdOf(displayVideo)
          THEN playing ELSE FALSE
    /\ videoTime' =
          IF PlayerMounted /\ PlayerMounted'
             /\ IdOf(displayVideo') = IdOf(displayVideo)
          THEN videoTime ELSE 0
    /\ playerDuration' = IF PlayerMounted' THEN playerDuration ELSE 0
    /\ metadataPending' =
          IF ~PlayerMounted' THEN FALSE
          ELSE IF ~PlayerMounted \/ IdOf(displayVideo') # IdOf(displayVideo)
               THEN TRUE ELSE metadataPending
    /\ IF CropMounted' THEN UNCHANGED cropVars
       ELSE /\ dragging' = FALSE
            /\ resizing' = "none"
            /\ dragStart' = [x |-> 0, y |-> 0]
            /\ initialArea' = NULL
    /\ IF OverlayMounted' THEN UNCHANGED overlayVars
       ELSE /\ isDragging' = FALSE
            /\ isResizing' = FALSE
            /\ overlayDragStart' = [x |-> 0, y |-> 0, posX |-> 0, posY |-> 0]
            /\ resizeStart' = [x |-> 0, y |-> 0, width |-> 0, height |-> 0]
            /\ resizeTarget' = "none"
    /\ Sync(isPlaying, overlayCurrentTime)

Init ==
    /\ allVideos = <<>>
    /\ mainVideo = NULL
    /\ previewVideo = NULL
    /\ selectedMaterial = NULL
    /\ mode = "crop"
    /\ duration = 0
    /\ startTime = 0
    /\ endTime = 0
    /\ currentTime = 0
    /\ cropArea = NULL
    /\ overlayPosition = NULL
    /\ videoDisplaySize = [width |-> 0, height |-> 0]
    /\ draggedVideo = NULL
    /\ uploads = {}
    /\ playerTime = 0
    /\ playerDuration = 0
    /\ metadataPending = FALSE
    /\ playing = FALSE
    /\ videoTime = 0
    /\ dragging = FALSE
    /\ resizing = "none"
    /\ dragStart = [x |-> 0, y |-> 0]
    /\ initialArea = NULL
    /\ isDragging = FALSE
    /\ isResizing = FALSE
    /\ overlayDragStart = [x |-> 0, y |-> 0, posX |-> 0, posY |-> 0]
    /\ resizeStart = [x |-> 0, y |-> 0, width |-> 0, height |-> 0]
    /\ resizeTarget = "none"
    /\ isPlaying = FALSE
    /\ overlayCurrentTime = 0
    /\ overlayPaused = TRUE
    /\ processing = FALSE
    /\ task = NULL
    /\ jobs = <<>>
    /\ lastMessage = NULL

-----------------------------------------------------------------------------
(* Text entries: a string is a sequence of one-character strings           *)

Digits == {"0", "1", "2", "3", "4", "5", "6", "7", "8", "9"}
DigitVal(c) ==
    CASE c = "0" -> 0 [] c = "1" -> 1 [] c = "2" -> 2 [] c = "3" -> 3
      [] c = "4" -> 4 [] c = "5" -> 5 [] c = "6" -> 6 [] c = "7" -> 7
      [] c = "8" -> 8 [] c = "9" -> 9

RECURSIVE TrimStart(_)
TrimStart(s) ==
    IF s # <<>> /\ Head(s) = " " THEN TrimStart(Tail(s)) ELSE s
RECURSIVE TrimEnd(_)
TrimEnd(s) ==
    IF s # <<>> /\ s[Len(s)] = " " THEN TrimEnd(SubSeq(s, 1, Len(s) - 1)) ELSE s
\* String.prototype.trim
Trim(s) == TrimEnd(TrimStart(s))

\* String.prototype.split(sep): the pieces between the separators
RECURSIVE SplitAcc(_, _, _, _)
SplitAcc(s, sep, cur, acc) ==
    IF s = <<>> THEN Append(acc, cur)
    ELSE IF Head(s) = sep THEN SplitAcc(Tail(s), sep, <<>>, Append(acc, cur))
    ELSE SplitAcc(Tail(s), sep, Append(cur, Head(s)), acc)
Split(s, sep) == SplitAcc(s, sep, <<>>, <<>>)

\* the value of a string of digits ("" is 0)
RECURSIVE DigitsValue(_, _)
DigitsValue(s, acc) ==
    IF s = <<>> THEN acc ELSE DigitsValue(Tail(s), 10 * acc + DigitVal(Head(s)))

AllDigits(s) == \A i \in 1..Len(s) : s[i] \in Digits

\* the leading digits of s
RECURSIVE LeadingDigits(_)
LeadingDigits(s) ==
    IF s # <<>> /\ Head(s) \in Digits
    THEN <<Head(s)>> \o LeadingDigits(Tail(s)) ELSE <<>>

\* Number(s) of an unsigned decimal entry: blank is 0, digits are their value,
\* anything else is NaN (IsNaNPart)
IsNaNPart(s) == ~AllDigits(Trim(s))
NumberOf(s) == DigitsValue(Trim(s), 0)

\* msPart.padEnd(2, '0').slice(0, 2)
PadSlice2(s) == SubSeq(s \o <<"0", "0">>, 1, 2)

\* parseInt(s, 10) where s starts with a digit: the value of its leading digits
parseInt(s) == DigitsValue(LeadingDigits(TrimStart(s)), 0)

\* The entries on which parseTimeInput yields a number: the part after the
\* first '.' is empty or starts with a digit (otherwise parseInt gives NaN).
TimeEntry(s) ==
    LET parts == Split(Trim(s), ".")
    IN  Len(parts) >= 2 /\ parts[2] # <<>>
            => LeadingDigits(TrimStart(PadSlice2(parts[2]))) # <<>>

\* parseTimeInput(timeStr), in ticks
parseTimeInput(timeStr) ==
    LET trimmed == Trim(timeStr)
        dotParts == Split(trimmed, ".")
        mainPart == dotParts[1]
        ms == IF Len(dotParts) >= 2 /\ dotParts[2] # <<>>
              THEN parseInt(PadSlice2(dotParts[2])) * Hundredth
              ELSE 0
        parts == Split(mainPart, ":")
        n(i) == NumberOf(parts[i])
    IN  IF trimmed = <<>> THEN 0
        ELSE IF \E i \in 1..Len(parts) : IsNaNPart(parts[i]) THEN 0
        ELSE IF Len(parts) = 3
             THEN (n(1) * 3600 + n(2) * 60 + n(3)) * TicksPerSecond + ms
        ELSE IF Len(parts) = 2
             THEN (n(1) * 60 + n(2)) * TicksPerSecond + ms
        ELSE IF Len(parts) = 1
             THEN n(1) * TicksPerSecond + ms
        ELSE 0

-----------------------------------------------------------------------------
(* Editor: the session handlers                                            *)

\* the sequence without the videos whose id is `id` (Array.filter)
RECURSIVE FilterOut(_, _)
FilterOut(seq, id) ==
    IF seq = <<>> THEN <<>>
    ELSE IF Head(seq).id = id THEN FilterOut(Tail(seq), id)
    ELSE <<Head(seq)>> \o FilterOut(Tail(seq), id)

InLibrary(id) == \E i \in 1..Len(allVideos) : allVideos[i].id = id

\* MaterialPanel: the cards it shows are the library without the main video,
\* and the main video's own card
materialVideos ==
    {allVideos[i] : i \in {k \in 1..Len(allVideos) :
                              allVideos[k].id # IdOf(mainVideo)}}
Cards == materialVideos \cup (IF mainVideo = NULL THEN {} ELSE {mainVideo})

\* useEffect(..., [mainVideo?.id]): runs when the id changed, acts when the
\* new main video is not null
MainVideoEffectRuns(video) == video # NULL /\ IdOf(video) # IdOf(mainVideo)
\* the effect without its setCropArea(null)
MainVideoEffectKeepCrop(video) ==
    /\ startTime' = 0
    /\ endTime' = video.duration
    /\ cropArea' = cropArea
    /\ duration' = video.duration
    /\ overlayPosition' = NULL
    /\ selectedMaterial' = NULL
    /\ previewVideo' = video

MainVideoEffect(video) ==
    /\ startTime' = 0
    /\ endTime' = video.duration
    /\ cropArea' = NULL
    /\ duration' = video.duration
    /\ overlayPosition' = NULL
    /\ selectedMaterial' = NULL
    /\ previewVideo' = video

\* setMainVideo(video), followed by the effect above
setMainVideo(video) ==
    /\ mainVideo' = video
    /\ IF MainVideoEffectRuns(video) THEN MainVideoEffect(video)
       ELSE UNCHANGED <<startTime, endTime, cropArea, duration,
                        overlayPosition, selectedMaterial, previewVideo>>

handleDurationChange(dur) ==
    /\ duration' = dur
    /\ endTime' = IF endTime = 0 \/ endTime > dur THEN dur ELSE endTime

\* handleMainVideoUpload, called by an upload handler that started when the
\* main video was (hadMain) or was not there
handleMainVideoUpload(video, hadMain) ==
    /\ allVideos' = IF InLibrary(video.id) THEN allVideos
                    ELSE <<video>> \o allVideos
    /\ IF ~hadMain THEN setMainVideo(video)
       ELSE UNCHANGED <<mainVideo, startTime, endTime, cropArea, duration,
                        overlayPosition, selectedMaterial, previewVideo>>
    /\ UNCHANGED <<mode, currentTime, videoDisplaySize>>

handleSetMainVideo(video) ==
    /\ setMainVideo(video)
    /\ UNCHANGED <<allVideos, mode, currentTime, videoDisplaySize>>

\* the default placement at the material's own size
defaultOverlayPositionNative(video) ==
    [x |-> 0, y |-> 0, width |-> video.width, height |-> video.height]

\* the default placement handleMaterialSelect seeds
defaultOverlayPosition(video) ==
    [x |-> 0, y |-> 0,
     width |-> Min(video.width, Round(mainVideo.width, 4)),
     height |-> Min(video.height, Round(mainVideo.height, 4))]

handleMaterialSelect(video) ==
    IF mode = "merge" /\ video.id # IdOf(mainVideo)
    THEN /\ selectedMaterial' = video
         /\ overlayPosition' = IF mainVideo # NULL
                               THEN defaultOverlayPosition(video)
                               ELSE overlayPosition
    ELSE UNCHANGED <<selectedMaterial, overlayPosition>>

handlePreviewVideo(video) ==
    /\ previewVideo' = video
    /\ UNCHANGED <<allVideos, mainVideo, selectedMaterial, mode, duration,
                   startTime, endTime, currentTime, cropArea, overlayPosition,
                   videoDisplaySize>>

\* handleVideoExported putting the video in place of the library
handleVideoExportedReplace(video) == allVideos' = <<video>>

handleVideoExported(video) == allVideos' = Append(allVideos, video)

\* handleDeleteVideo without its last if (the selected material)
handleDeleteVideoKeepOverlay(video) ==
    /\ allVideos' = FilterOut(allVideos, video.id)
    /\ mainVideo' = IF IdOf(mainVideo) = video.id THEN NULL ELSE mainVideo
    /\ previewVideo' =
          IF IdOf(previewVideo) = video.id THEN mainVideo
          ELSE IF IdOf(mainVideo) = video.id THEN NULL
          ELSE previewVideo
    /\ UNCHANGED <<selectedMaterial, overlayPosition>>
    /\ UNCHANGED <<mode, duration, startTime, endTime, currentTime, cropArea,
                   videoDisplaySize>>

handleDeleteVideo(video) ==
    /\ allVideos' = FilterOut(allVideos, video.id)
    /\ mainVideo' = IF IdOf(mainVideo) = video.id THEN NULL ELSE mainVideo
    \* the later setPreviewVideo call wins
    /\ previewVideo' =
          IF IdOf(previewVideo) = video.id THEN mainVideo
          ELSE IF IdOf(mainVideo) = video.id THEN NULL
          ELSE previewVideo
    /\ IF IdOf(selectedMaterial) = video.id
       THEN selectedMaterial' = NULL /\ overlayPosition' = NULL
       ELSE UNCHANGED <<selectedMaterial, overlayPosition>>
    /\ UNCHANGED <<mode, duration, startTime, endTime, currentTime, cropArea,
                   videoDisplaySize>>

\* handleModeChange without the two resets of its crop branch
handleModeChangeKeepOverlay(newMode) ==
    /\ mode' = newMode
    /\ IF newMode = "crop"
       THEN /\ UNCHANGED <<selectedMaterial, overlayPosition>>
            /\ cropArea' = IF mainVideo # NULL /\ cropArea = NULL
                           THEN [x |-> 0, y |-> 0, width |-> mainVideo.width,
                                 height |-> mainVideo.height]
                           ELSE cropArea
       ELSE UNCHANGED <<selectedMaterial, overlayPosition, cropArea>>
    /\ previewVideo' = IF mainVideo # NULL THEN mainVideo ELSE previewVideo
    /\ UNCHANGED <<allVideos, mainVideo, duration, startTime, endTime,
                   currentTime, videoDisplaySize>>

handleModeChange(newMode) ==
    /\ mode' = newMode
    /\ IF newMode = "crop"
       THEN /\ selectedMaterial' = NULL
            /\ overlayPosition' = NULL
            /\ cropArea' = IF mainVideo # NULL /\ cropArea = NULL
                           THEN [x |-> 0, y |-> 0, width |-> mainVideo.width,
                                 height |-> mainVideo.height]
                           ELSE cropArea
       ELSE UNCHANGED <<selectedMaterial, overlayPosition, cropArea>>
    /\ previewVideo' = IF mainVideo # NULL THEN mainVideo ELSE previewVideo
    /\ UNCHANGED <<allVideos, mainVideo, duration, startTime, endTime,
                   currentTime, videoDisplaySize>>

\* keydown with code KeyS, outside a text field
KeyS ==
    /\ mainVideo # NULL
    /\ LET newStart == Max(0, Min(currentTime, mainVideo.duration - Tenth))
       IN  /\ startTime' = newStart
           /\ endTime' = IF mode = "merge" /\ selectedMaterial # NULL
                         THEN Min(newStart + selectedMaterial.duration,
                                  mainVideo.duration)
                         ELSE endTime
    /\ UNCHANGED <<allVideos, mainVideo, previewVideo, selectedMaterial, mode,
                   duration, currentTime, cropArea, overlayPosition,
                   videoDisplaySize>>

\* the KeyE branch without its mode === 'crop' condition
KeyEAnyMode ==
    /\ mainVideo # NULL
    /\ endTime' = Min(Max(currentTime, startTime + Tenth), mainVideo.duration)
    /\ UNCHANGED <<allVideos, mainVideo, previewVideo, selectedMaterial, mode,
                   duration, startTime, currentTime, cropArea, overlayPosition,
                   videoDisplaySize>>

\* keydown with code KeyE, outside a text field
KeyE ==
    /\ mainVideo # NULL
    /\ endTime' = IF mode = "crop"
                  THEN Min(Max(currentTime, startTime + Tenth),
                           mainVideo.duration)
                  ELSE endTime
    /\ UNCHANGED <<allVideos, mainVideo, previewVideo, selectedMaterial, mode,
                   duration, startTime, currentTime, cropArea, overlayPosition,
                   videoDisplaySize>>

\* handleOverlayDrop without its test against the main video
handleOverlayDropAny(video, position) ==
    selectedMaterial' = video /\ overlayPosition' = position

handleOverlayDrop(video, position) ==
    IF video.id # IdOf(mainVideo)
    THEN selectedMaterial' = video /\ overlayPosition' = position
    ELSE UNCHANGED <<selectedMaterial, overlayPosition>>

handleOverlayRemove ==
    /\ selectedMaterial' = NULL
    /\ overlayPosition' = NULL
    /\ UNCHANGED <<allVideos, mainVideo, previewVideo, mode, duration,
                   startTime, endTime, currentTime, cropArea, videoDisplaySize>>

-----------------------------------------------------------------------------
(* Uploads (MaterialPanel.handleFileChange, MainVideoUploader.handleUpload) *)

\* The handler awaits uploadVideo and then calls the onUpload it was given
\* when it started, so handleMainVideoUpload sees the main video of that time.
UploadStart(video, via) ==
    /\ \A u \in uploads : u.via # via /\ u.video.id # video.id
    /\ via = "uploader" => mainVideo = NULL
    /\ uploads' = uploads \cup
          {[video |-> video, via |-> via, hadMain |-> mainVideo # NULL]}
    /\ UNCHANGED <<editorVars, draggedVideo, playerVars, syncVars, cropVars,
                   overlayVars, panelVars>>

UploadDone(u) ==
    /\ u \in uploads
    /\ uploads' = uploads \ {u}
    /\ handleMainVideoUpload(u.video, u.hadMain)
    /\ UNCHANGED <<draggedVideo, panelVars>>
    /\ Rerender

\* const ALLOWED_TYPES, const MAX_SIZE (the same in both components)
ALLOWED_TYPES ==
    {"video/mp4", "video/quicktime", "video/x-msvideo", "video/webm",
     "video/x-matroska"}
MAX_SIZE == 500 * 1024 * 1024

\* the letters of a file name, lower case (the i flag of the pattern)
ToLower(c) ==
    CASE c = "A" -> "a" [] c = "F" -> "f" [] c = "I" -> "i" [] c = "K" -> "k"
      [] c = "L" -> "l" [] c = "M" -> "m" [] c = "O" -> "o" [] c = "P" -> "p"
      [] c = "T" -> "t" [] c = "V" -> "v" [] c = "W" -> "w" [] c = "X" -> "x"
      [] OTHER -> c
LowerCase(s) == [i \in 1..Len(s) |-> ToLower(s[i])]

\* the extensions of /\.(mp4|mov|avi|webm|mkv|flv|wmv)$/i
PatternExtensions ==
    {<<"m", "p", "4">>, <<"m", "o", "v">>, <<"a", "v", "i">>,
     <<"w", "e", "b", "m">>, <<"m", "k", "v">>, <<"f", "l", "v">>,
     <<"w", "m", "v">>}

\* file.name.match(/\.(mp4|mov|avi|webm|mkv|flv|wmv)$/i): the name ends in a
\* dot and one of the extensions
NameMatches(name) ==
    \E ext \in PatternExtensions :
        /\ Len(name) > Len(ext)
        /\ name[Len(name) - Len(ext)] = "."
        /\ LowerCase(SubSeq(name, Len(name) - Len(ext) + 1, Len(name))) = ext

\* validateFile(file) of MainVideoUploader, and the same two tests at the
\* head of MaterialPanel.handleFileChange: the error, or "null"
validateFile(file) ==
    IF file.type \notin ALLOWED_TYPES /\ ~NameMatches(file.name)
    THEN "format"
    ELSE IF file.size > MAX_SIZE THEN "size"
    ELSE "null"

\* MaterialPanel.handleFileChange with the file picked, up to the call of
\* uploadVideo; the storage service will answer with `video`
handleFileChange(file, video) ==
    IF validateFile(file) # "null" THEN UNCHANGED vars
    ELSE UploadStart(video, "panel")

\* MainVideoUploader.handleUpload with the file picked or dropped, up to
\* the call of uploadVideo
handleUpload(file, video) ==
    IF validateFile(file) # "null"
    THEN mainVideo = NULL /\ UNCHANGED vars
    ELSE UploadStart(video, "uploader")

\* uploadVideo resolves without success or rejects: nothing is added
UploadFailed(u) ==
    /\ u \in uploads
    /\ uploads' = uploads \ {u}
    /\ UNCHANGED <<editorVars, draggedVideo, playerVars, syncVars, cropVars,
                   overlayVars, panelVars>>

-----------------------------------------------------------------------------
(* MaterialPanel: cards                                                    *)

\* click on a card
CardClick(video) ==
    /\ video \in Cards
    /\ handlePreviewVideo(video)
    /\ UNCHANGED <<draggedVideo, uploads, panelVars>>
    /\ Rerender

\* double click on a material card: the two clicks preview it, then
\* onDoubleClick = mode === 'merge' && onSelect(video)
CardDoubleClick(video) ==
    /\ video \in materialVideos
    /\ previewVideo' = video
    /\ IF mode = "merge" THEN handleMaterialSelect(video)
       ELSE UNCHANGED <<selectedMaterial, overlayPosition>>
    /\ UNCHANGED <<allVideos, mainVideo, mode, duration, startTime, endTime,
                   currentTime, cropArea, videoDisplaySize>>
    /\ UNCHANGED <<draggedVideo, uploads, panelVars>>
    /\ Rerender

\* the delete button of a card
CardDelete(video) ==
    /\ video \in Cards
    /\ handleDeleteVideo(video)
    /\ UNCHANGED <<draggedVideo, uploads, panelVars>>
    /\ Rerender

\* dragstart on a card (MaterialPanel.handleDragStart, Editor.handleDragStart)
\* followed by a drop on the main-video slot (handleMainDrop)
CardDragToMainSlot(video) ==
    /\ video \in Cards
    /\ draggedVideo' = video
    /\ handleSetMainVideo(video)
    /\ UNCHANGED <<uploads, panelVars>>
    /\ Rerender

\* the mode buttons of the PropertyPanel (rendered when there is a main video)
ModeButton(newMode) ==
    /\ mainVideo # NULL
    /\ handleModeChange(newMode)
    /\ UNCHANGED <<draggedVideo, uploads, panelVars>>
    /\ Rerender

KeyDownS ==
    /\ KeyS
    /\ UNCHANGED <<draggedVideo, uploads, panelVars>>
    /\ Rerender

KeyDownE ==
    /\ KeyE
    /\ UNCHANGED <<draggedVideo, uploads, panelVars>>
    /\ Rerender

-----------------------------------------------------------------------------
(* VideoPlayer                                                             *)

\* <video onLoadedMetadata>: handleLoadedMetadata, then the Editor's
\* handleDurationChange
handleLoadedMetadata ==
    /\ PlayerMounted
    /\ metadataPending
    /\ metadataPending' = FALSE
    /\ playerDuration' = displayVideo.duration
    /\ handleDurationChange(displayVideo.duration)
    /\ UNCHANGED <<allVideos, mainVideo, previewVideo, selectedMaterial, mode,
                   startTime, currentTime, cropArea, overlayPosition,
                   videoDisplaySize>>
    /\ UNCHANGED <<playerTime, playing, videoTime, draggedVideo, uploads,
                   cropVars, overlayVars, panelVars>>
    /\ Sync(isPlaying, overlayCurrentTime)

\* updateVideoSize: the element's rendered size, measured when the video
\* changes, on loadeddata and on window resize
updateVideoSize(size) ==
    /\ PlayerMounted
    /\ videoDisplaySize' = size
    /\ UNCHANGED <<allVideos, mainVideo, previewVideo, selectedMaterial, mode,
                   duration, startTime, endTime, currentTime, cropArea,
                   overlayPosition>>
    /\ UNCHANGED <<draggedVideo, uploads, panelVars>>
    /\ Rerender

\* handleSeek(time) on the progress slider of a loaded video, and the
\* timeupdate event the element then fires (handleTimeUpdate -> onTimeUpdate
\* = setCurrentTime, which acts only while the player is not playing)
handleSeek(time) ==
    /\ PlayerMounted
    /\ ~metadataPending
    /\ time <= playerDuration
    /\ videoTime' = time
    /\ playerTime' = time
    /\ currentTime' = IF playing THEN currentTime ELSE time
    /\ UNCHANGED <<allVideos, mainVideo, previewVideo, selectedMaterial, mode,
                   duration, startTime, endTime, cropArea, overlayPosition,
                   videoDisplaySize>>
    /\ UNCHANGED <<playerDuration, metadataPending, playing, draggedVideo,
                   uploads, cropVars, overlayVars, panelVars>>
    /\ Sync(isPlaying, overlayCurrentTime)

\* togglePlay: the play button, a click on the video, the space key
togglePlay ==
    /\ PlayerMounted
    /\ ~metadataPending
    /\ UNCHANGED <<editorVars, draggedVideo, uploads, cropVars, overlayVars,
                   panelVars>>
    /\ UNCHANGED <<playerTime, playerDuration, metadataPending>>
    /\ IF playing
       THEN /\ playing' = FALSE
            /\ videoTime' = videoTime
            /\ Sync(FALSE, overlayCurrentTime)
       ELSE LET restart == playerDuration # 0 /\ videoTime >= playerDuration
            IN  /\ videoTime' = IF restart THEN 0 ELSE videoTime
                /\ playing' = TRUE
                /\ Sync(TRUE, IF restart THEN 0 ELSE overlayCurrentTime)

\* The two <video> elements play: the player's advances by dMain while it
\* plays and has not ended, the overlay's by dOverlay while it is not
\* paused and has not ended.  No state of a component changes.
Advance(dMain, dOverlay) ==
    /\ PlayerMounted
    /\ LET mainRuns == playing /\ videoTime < displayVideo.duration
           overlayRuns == /\ OverlayMounted
                          /\ ~overlayPaused
                          /\ overlayCurrentTime < selectedMaterial.duration
       IN  /\ mainRuns \/ overlayRuns
           /\ videoTime' = IF mainRuns
                           THEN Min(videoTime + dMain, displayVideo.duration)
                           ELSE videoTime
           /\ overlayCurrentTime' =
                 IF overlayRuns
                 THEN Min(overlayCurrentTime + dOverlay,
                          selectedMaterial.duration)
                 ELSE overlayCurrentTime
    /\ UNCHANGED <<editorVars, draggedVideo, uploads, cropVars, overlayVars,
                   panelVars>>
    /\ UNCHANGED <<playerTime, playerDuration, metadataPending, playing,
                   isPlaying, overlayPaused>>

\* updateProgress: the animation frame the player requests while playing
updateProgress ==
    /\ PlayerMounted
    /\ playing
    /\ playerTime' = videoTime
    /\ currentTime' = videoTime
    /\ UNCHANGED <<allVideos, mainVideo, previewVideo, selectedMaterial, mode,
                   duration, startTime, endTime, cropArea, overlayPosition,
                   videoDisplaySize>>
    /\ UNCHANGED <<playerDuration, metadataPending, draggedVideo, uploads,
                   cropVars, overlayVars, panelVars>>
    /\ IF playerDuration # 0 /\ videoTime >= playerDuration
       THEN /\ videoTime' = 0
            /\ playing' = FALSE
            /\ Sync(FALSE, 0)
       ELSE /\ UNCHANGED <<videoTime, playing>>
            /\ Sync(isPlaying, overlayCurrentTime)

\* <video onEnded>: the player's element reached its end while playing
onEnded ==
    /\ PlayerMounted
    /\ playing
    /\ videoTime >= displayVideo.duration
    /\ playing' = FALSE
    /\ UNCHANGED <<editorVars, draggedVideo, uploads, cropVars, overlayVars,
                   panelVars>>
    /\ UNCHANGED <<playerTime, playerDuration, metadataPending, videoTime>>
    /\ Sync(isPlaying, overlayCurrentTime)

\* <video onTimeUpdate>: handleTimeUpdate, for a timeupdate event the
\* element fired when its currentTime was set or it was paused
handleTimeUpdate ==
    /\ PlayerMounted
    /\ ~playing
    /\ playerTime # videoTime
    /\ playerTime' = videoTime
    /\ currentTime' = videoTime
    /\ UNCHANGED <<allVideos, mainVideo, previewVideo, selectedMaterial, mode,
                   duration, startTime, endTime, cropArea, overlayPosition,
                   videoDisplaySize>>
    /\ UNCHANGED <<playerDuration, metadataPending, playing, videoTime,
                   draggedVideo, uploads, cropVars, overlayVars, panelVars>>
    /\ Sync(isPlaying, overlayCurrentTime)

\* const frameTime = 1 / 30
frameTime == TicksPerSecond \div 30

\* stepFrame(direction): the frame buttons and the arrow keys, and the
\* timeupdate event the element then fires
stepFrame(direction) ==
    /\ PlayerMounted
    /\ ~metadataPending
    /\ LET newTime == IF direction = "forward"
                      THEN Min(videoTime + frameTime, playerDuration)
                      ELSE Max(videoTime - frameTime, 0)
       IN  /\ videoTime' = newTime
           /\ playerTime' = newTime
           /\ currentTime' = newTime
    /\ playing' = FALSE
    /\ UNCHANGED <<allVideos, mainVideo, previewVideo, selectedMaterial, mode,
                   duration, startTime, endTime, cropArea, overlayPosition,
                   videoDisplaySize>>
    /\ UNCHANGED <<playerDuration, metadataPending, draggedVideo, uploads,
                   cropVars, overlayVars, panelVars>>
    /\ Sync(IF playing THEN FALSE ELSE isPlaying, overlayCurrentTime)

\* dragstart on a card, followed by handleDrop on the video container at
\* (dropX, dropY) from the container's corner.  draggedVideo has even
\* dimensions here: a material of odd width or height would be placed at a
\* half pixel, which this integer model does not represent.
handleDrop(card, dropX, dropY) ==
    /\ card \in Cards
    /\ card.width % 2 = 0 /\ card.height % 2 = 0
    /\ PlayerMounted
    /\ videoDisplaySize.width > 0 /\ videoDisplaySize.height > 0
    /\ draggedVideo' = card
    /\ IF mode # "merge" THEN UNCHANGED <<selectedMaterial, overlayPosition>>
       ELSE LET video == displayVideo
                videoX == Round(dropX * video.width, videoDisplaySize.width)
                videoY == Round(dropY * video.height, videoDisplaySize.height)
                overlayWidth == card.width
                overlayHeight == card.height
                position ==
                    [x |-> Max(0, Min(videoX - overlayWidth \div 2,
                                      video.width - overlayWidth)),
                     y |-> Max(0, Min(videoY - overlayHeight \div 2,
                                      video.height - overlayHeight)),
                     width |-> overlayWidth,
                     height |-> overlayHeight]
            IN  handleOverlayDrop(card, position)
    /\ UNCHANGED <<allVideos, mainVideo, previewVideo, mode, duration,
                   startTime, endTime, currentTime, cropArea,
                   videoDisplaySize>>
    /\ UNCHANGED <<uploads, panelVars>>
    /\ Rerender

\* the remove button of the overlay box
OverlayRemoveButton ==
    /\ OverlayMounted
    /\ handleOverlayRemove
    /\ UNCHANGED <<draggedVideo, uploads, panelVars>>
    /\ Rerender

-----------------------------------------------------------------------------
(* CropOverlay                                                             *)

\* props, as the Editor passes them
videoWidth == displayVideo.width
videoHeight == displayVideo.height
containerWidth == videoDisplaySize.width
containerHeight == videoDisplaySize.height

\* the fit with its two branches exchanged
FitExchanged(vw, vh, cw, ch) ==
    IF vw * ch <= cw * vh
    THEN [den |-> 2 * vw,
          displayWidth |-> 2 * vw * cw,
          displayHeight |-> 2 * cw * vh,
          offsetX |-> 0,
          offsetY |-> ch * vw - cw * vh,
          scaleNum |-> cw, scaleDen |-> vw]
    ELSE [den |-> 2 * vh,
          displayHeight |-> 2 * vh * ch,
          displayWidth |-> 2 * ch * vw,
          offsetX |-> cw * vh - ch * vw,
          offsetY |-> 0,
          scaleNum |-> ch, scaleDen |-> vh]

\* The fit of a vw x vh frame in a cw x ch container (cw, ch > 0).
\* videoAspect > containerAspect is vw * ch > cw * vh.  The lengths are the
\* fractions displayWidth / den, ..., and the scale is scaleNum / scaleDen.
Fit(vw, vh, cw, ch) ==
    IF vw * ch > cw * vh
    THEN [den |-> 2 * vw,
          displayWidth |-> 2 * vw * cw,
          displayHeight |-> 2 * cw * vh,
          offsetX |-> 0,
          offsetY |-> ch * vw - cw * vh,
          scaleNum |-> cw, scaleDen |-> vw]
    ELSE [den |-> 2 * vh,
          displayHeight |-> 2 * vh * ch,
          displayWidth |-> 2 * ch * vw,
          offsetX |-> cw * vh - ch * vw,
          offsetY |-> 0,
          scaleNum |-> ch, scaleDen |-> vh]

fit == Fit(videoWidth, videoHeight, containerWidth, containerHeight)

\* toContainerCoords(area): the fields are fractions over fit.den
toContainerCoords(area) ==
    [x |-> 2 * area.x * fit.scaleNum + fit.offsetX,
     y |-> 2 * area.y * fit.scaleNum + fit.offsetY,
     width |-> 2 * area.width * fit.scaleNum,
     height |-> 2 * area.height * fit.scaleNum]

\* toVideoCoords without the offsets
toVideoCoordsNoOffset(containerArea) ==
    LET d == fit.den * fit.scaleNum
    IN  [x |-> Round(containerArea.x * fit.scaleDen, d),
         y |-> Round(containerArea.y * fit.scaleDen, d),
         width |-> Round(containerArea.width * fit.scaleDen, d),
         height |-> Round(containerArea.height * fit.scaleDen, d)]

\* toVideoCoords(containerArea) of an area whose fields are fractions over
\* fit.den, with scale > 0
toVideoCoords(containerArea) ==
    LET d == fit.den * fit.scaleNum
    IN  [x |-> Round((containerArea.x - fit.offsetX) * fit.scaleDen, d),
         y |-> Round((containerArea.y - fit.offsetY) * fit.scaleDen, d),
         width |-> Round(containerArea.width * fit.scaleDen, d),
         height |-> Round(containerArea.height * fit.scaleDen, d)]

\* clampArea without its limits: the fields are rounded and nothing else
clampAreaRoundOnly(area, den) ==
    [x |-> Round(area.x, den), y |-> Round(area.y, den),
     width |-> Round(area.width, den), height |-> Round(area.height, den)]

\* clampArea with x and y limited before width and height are
clampAreaPositionFirst(area, den) ==
    LET x0 == Round(area.x, den)
        y0 == Round(area.y, den)
        width0 == Round(area.width, den)
        height0 == Round(area.height, den)
    IN  [x |-> Max(0, Min(x0, videoWidth - width0)),
         y |-> Max(0, Min(y0, videoHeight - height0)),
         width |-> Max(minSize, Min(width0, videoWidth)),
         height |-> Max(minSize, Min(height0, videoHeight))]

\* clampArea of the area whose fields are the fractions area.f / den
clampArea(area, den) ==
    LET x0 == Round(area.x, den)
        y0 == Round(area.y, den)
        width0 == Round(area.width, den)
        height0 == Round(area.height, den)
        width == Max(minSize, Min(width0, videoWidth))
        height == Max(minSize, Min(height0, videoHeight))
        x == Max(0, Min(x0, videoWidth - width))
        y == Max(0, Min(y0, videoHeight - height))
    IN  [x |-> x, y |-> y, width |-> width, height |-> height]

Handles == {"nw", "n", "ne", "e", "se", "s", "sw", "w"}

\* onMouseDown of the crop box (handle = "none") or of one of its handles,
\* with the pointer at (clientX, clientY)
handleMouseDown(clientX, clientY, handle) ==
    /\ CropMounted
    /\ cropArea # NULL
    /\ ~dragging /\ resizing = "none"
    /\ dragStart' = [x |-> clientX, y |-> clientY]
    /\ initialArea' = cropArea
    /\ IF handle # "none"
       THEN resizing' = handle /\ UNCHANGED dragging
       ELSE dragging' = TRUE /\ UNCHANGED resizing
    /\ UNCHANGED <<editorVars, draggedVideo, uploads, playerVars, syncVars, overlayVars,
                   panelVars>>

\* the area a resize of initialArea by (dx, dy) = (dxn / d, dyn / d) asks
\* for, before clamping, as fractions over d
resizedArea(handle, dxn, dyn, d) ==
    LET a == [x |-> initialArea.x * d, y |-> initialArea.y * d,
              width |-> initialArea.width * d,
              height |-> initialArea.height * d]
    IN  CASE handle = "nw" ->
               [x |-> a.x + dxn, y |-> a.y + dyn,
                width |-> a.width - dxn, height |-> a.height - dyn]
          [] handle = "n" ->
               [a EXCEPT !.y = a.y + dyn, !.height = a.height - dyn]
          [] handle = "ne" ->
               [a EXCEPT !.y = a.y + dyn, !.width = a.width + dxn,
                         !.height = a.height - dyn]
          [] handle = "e" ->
               [a EXCEPT !.width = a.width + dxn]
          [] handle = "se" ->
               [a EXCEPT !.width = a.width + dxn, !.height = a.height + dyn]
          [] handle = "s" ->
               [a EXCEPT !.height = a.height + dyn]
          [] handle = "sw" ->
               [a EXCEPT !.x = a.x + dxn, !.width = a.width - dxn,
                         !.height = a.height + dyn]
          [] handle = "w" ->
               [a EXCEPT !.x = a.x + dxn, !.width = a.width - dxn]

\* the area handleMouseMove hands to onChange with the pointer at
\* (clientX, clientY): dx = (clientX - dragStart.x) / scale
gestureArea(clientX, clientY) ==
    LET d == fit.scaleNum
        dxn == (clientX - dragStart.x) * fit.scaleDen
        dyn == (clientY - dragStart.y) * fit.scaleDen
    IN  IF dragging
        THEN clampArea([x |-> initialArea.x * d + dxn,
                        y |-> initialArea.y * d + dyn,
                        width |-> initialArea.width * d,
                        height |-> initialArea.height * d], d)
        ELSE clampArea(resizedArea(resizing, dxn, dyn, d), d)

\* handleMouseMove applying the pointer's displacement to the box as the
\* previous update left it
handleMouseMoveFromLast(clientX, clientY) ==
    /\ CropMounted
    /\ containerHeight > 0
    /\ dragging \/ resizing # "none"
    /\ initialArea # NULL
    /\ LET g == gestureArea(clientX, clientY)
       IN  cropArea' =
              clampArea([x |-> cropArea.x + g.x - initialArea.x,
                         y |-> cropArea.y + g.y - initialArea.y,
                         width |-> cropArea.width + g.width
                                      - initialArea.width,
                         height |-> cropArea.height + g.height
                                       - initialArea.height], 1)
    /\ UNCHANGED <<allVideos, mainVideo, previewVideo, selectedMaterial, mode,
                   duration, startTime, endTime, currentTime, overlayPosition,
                   videoDisplaySize>>
    /\ UNCHANGED <<draggedVideo, uploads, playerVars, syncVars, cropVars,
                   overlayVars, panelVars>>

\* mousemove on the window while a gesture is active
handleMouseMove(clientX, clientY) ==
    /\ CropMounted
    /\ containerHeight > 0
    /\ dragging \/ resizing # "none"
    /\ initialArea # NULL
    /\ cropArea' = gestureArea(clientX, clientY)
    /\ UNCHANGED <<allVideos, mainVideo, previewVideo, selectedMaterial, mode,
                   duration, startTime, endTime, currentTime, overlayPosition,
                   videoDisplaySize>>
    /\ UNCHANGED <<draggedVideo, uploads, playerVars, syncVars, cropVars, overlayVars,
                   panelVars>>

\* mouseup on the window while a gesture is active
handleMouseUp ==
    /\ CropMounted
    /\ dragging \/ resizing # "none"
    /\ dragging' = FALSE
    /\ resizing' = "none"
    /\ initialArea' = NULL
    /\ UNCHANGED dragStart
    /\ UNCHANGED <<editorVars, draggedVideo, uploads, playerVars, syncVars, overlayVars,
                   panelVars>>

\* click on the overlay at (clickX, clickY) from its corner, when there is
\* no crop box yet
handleOverlayClick(clickX, clickY) ==
    /\ CropMounted
    /\ containerHeight > 0
    /\ cropArea = NULL
    /\ LET inside ==
              ~ \/ clickX * fit.den < fit.offsetX
                \/ clickX * fit.den > fit.offsetX + fit.displayWidth
                \/ clickY * fit.den < fit.offsetY
                \/ clickY * fit.den > fit.offsetY + fit.displayHeight
           \* defaultX = (videoWidth - videoWidth / 2) / 2
       IN  cropArea' =
              IF inside
              THEN [x |-> Round(videoWidth, 4), y |-> Round(videoHeight, 4),
                    width |-> Round(videoWidth, 2),
                    height |-> Round(videoHeight, 2)]
              ELSE cropArea
    /\ UNCHANGED <<allVideos, mainVideo, previewVideo, selectedMaterial, mode,
                   duration, startTime, endTime, currentTime, overlayPosition,
                   videoDisplaySize>>
    /\ UNCHANGED <<draggedVideo, uploads, playerVars, syncVars, cropVars, overlayVars,
                   panelVars>>

-----------------------------------------------------------------------------
(* OverlayVideo                                                            *)

\* props, as the VideoPlayer passes them
mainVideoWidth == displayVideo.width
mainVideoHeight == displayVideo.height

\* the four corner handles the overlay box renders
OverlayHandles == {"se", "sw", "ne", "nw"}

\* onMouseDown of the overlay box (not on a handle); the box takes pointer
\* events only while it is shown
overlayMouseDown(clientX, clientY) ==
    /\ OverlayMounted
    /\ shouldShow
    /\ ~isDragging /\ ~isResizing
    /\ isDragging' = TRUE
    /\ overlayDragStart' = [x |-> clientX, y |-> clientY,
                            posX |-> overlayPosition.x,
                            posY |-> overlayPosition.y]
    /\ UNCHANGED <<isResizing, resizeStart, resizeTarget>>
    /\ UNCHANGED <<editorVars, draggedVideo, uploads, playerVars, syncVars, cropVars,
                   panelVars>>

\* onMouseDown of any of the four corner handles
handleResizeMouseDown(clientX, clientY) ==
    /\ OverlayMounted
    /\ shouldShow
    /\ ~isDragging /\ ~isResizing
    /\ isResizing' = TRUE
    /\ resizeStart' = [x |-> clientX, y |-> clientY,
                       width |-> overlayPosition.width,
                       height |-> overlayPosition.height]
    /\ \E handle \in OverlayHandles : resizeTarget' = handle
    /\ UNCHANGED <<isDragging, overlayDragStart>>
    /\ UNCHANGED <<editorVars, draggedVideo, uploads, playerVars, syncVars, cropVars,
                   panelVars>>

\* the position the window's mousemove listener hands to onPositionChange:
\* deltaX = (clientX - start.x) / scaleX with scaleX = containerWidth /
\* mainVideoWidth
overlayMovedPosition(clientX, clientY) ==
    LET position == overlayPosition
        newX0 == Round(overlayDragStart.posX * containerWidth
                         + (clientX - overlayDragStart.x) * mainVideoWidth,
                       containerWidth)
        newY0 == Round(overlayDragStart.posY * containerHeight
                         + (clientY - overlayDragStart.y) * mainVideoHeight,
                       containerHeight)
        newX == Max(0, Min(newX0, mainVideoWidth - position.width))
        newY == Max(0, Min(newY0, mainVideoHeight - position.height))
    IN  [position EXCEPT !.x = newX, !.y = newY]

overlayResizedPosition(clientX, clientY) ==
    LET position == overlayPosition
        newWidth0 == Round(resizeStart.width * containerWidth
                             + (clientX - resizeStart.x) * mainVideoWidth,
                           containerWidth)
        newHeight0 == Round(resizeStart.height * containerHeight
                              + (clientY - resizeStart.y) * mainVideoHeight,
                            containerHeight)
        newWidth == Min(Max(overlayMinSize, newWidth0),
                        mainVideoWidth - position.x)
        newHeight == Min(Max(overlayMinSize, newHeight0),
                         mainVideoHeight - position.y)
    IN  [position EXCEPT !.width = newWidth, !.height = newHeight]

overlayMouseMove(clientX, clientY) ==
    /\ OverlayMounted
    /\ containerHeight > 0
    /\ isDragging \/ isResizing
    /\ overlayPosition' = IF isDragging
                          THEN overlayMovedPosition(clientX, clientY)
                          ELSE overlayResizedPosition(clientX, clientY)
    /\ UNCHANGED <<allVideos, mainVideo, previewVideo, selectedMaterial, mode,
                   duration, startTime, endTime, currentTime, cropArea,
                   videoDisplaySize>>
    /\ UNCHANGED <<draggedVideo, uploads, playerVars, syncVars, cropVars, overlayVars,
                   panelVars>>

overlayMouseUp ==
    /\ OverlayMounted
    /\ isDragging \/ isResizing
    /\ isDragging' = FALSE
    /\ isResizing' = FALSE
    /\ resizeTarget' = "none"
    /\ UNCHANGED <<overlayDragStart, resizeStart>>
    /\ UNCHANGED <<editorVars, draggedVideo, uploads, playerVars, syncVars, cropVars,
                   panelVars>>

-----------------------------------------------------------------------------
(* PropertyPanel: time and region fields                                   *)

\* The panel renders its fields and buttons only when there is a main video;
\* the crop-mode fields in crop mode, the merge-mode start field in merge mode.

\* blur or enter on the crop-mode start field holding startTimeInput
handleStartTimeBlur(startTimeInput) ==
    /\ mainVideo # NULL
    /\ mode = "crop"
    /\ LET parsed == parseTimeInput(startTimeInput)
       IN  startTime' = Max(0, Min(parsed, endTime - Tenth))
    /\ UNCHANGED <<allVideos, mainVideo, previewVideo, selectedMaterial, mode,
                   duration, endTime, currentTime, cropArea, overlayPosition,
                   videoDisplaySize>>
    /\ UNCHANGED <<draggedVideo, uploads, playerVars, syncVars, cropVars, overlayVars,
                   panelVars>>

handleEndTimeBlur(endTimeInput) ==
    /\ mainVideo # NULL
    /\ mode = "crop"
    /\ LET parsed == parseTimeInput(endTimeInput)
       IN  endTime' = Max(startTime + Tenth, Min(parsed, mainVideo.duration))
    /\ UNCHANGED <<allVideos, mainVideo, previewVideo, selectedMaterial, mode,
                   duration, startTime, currentTime, cropArea, overlayPosition,
                   videoDisplaySize>>
    /\ UNCHANGED <<draggedVideo, uploads, playerVars, syncVars, cropVars, overlayVars,
                   panelVars>>

handleDurationBlur(durationInput) ==
    /\ mainVideo # NULL
    /\ mode = "crop"
    /\ LET parsed == parseTimeInput(durationInput)
       IN  endTime' = IF parsed > 0
                      THEN Min(startTime + parsed, mainVideo.duration)
                      ELSE endTime
    /\ UNCHANGED <<allVideos, mainVideo, previewVideo, selectedMaterial, mode,
                   duration, startTime, currentTime, cropArea, overlayPosition,
                   videoDisplaySize>>
    /\ UNCHANGED <<draggedVideo, uploads, playerVars, syncVars, cropVars, overlayVars,
                   panelVars>>

\* const overlayDuration = selectedMaterial?.duration || 0
overlayDuration == IF selectedMaterial = NULL THEN 0 ELSE selectedMaterial.duration

handleMergeStartTimeBlur(startTimeInput) ==
    /\ mainVideo # NULL
    /\ mode = "merge"
    /\ IF Trim(startTimeInput) = <<>>
       THEN UNCHANGED <<startTime, endTime>>
       ELSE LET parsed == parseTimeInput(startTimeInput)
                newStart == Max(0, Min(parsed, mainVideo.duration - Tenth))
            IN  /\ startTime' = newStart
                /\ endTime' = IF overlayDuration > 0
                              THEN Min(newStart + overlayDuration,
                                       mainVideo.duration)
                              ELSE endTime
    /\ UNCHANGED <<allVideos, mainVideo, previewVideo, selectedMaterial, mode,
                   duration, currentTime, cropArea, overlayPosition,
                   videoDisplaySize>>
    /\ UNCHANGED <<draggedVideo, uploads, playerVars, cropVars, overlayVars,
                   panelVars>>
    /\ Sync(isPlaying, overlayCurrentTime)

\* onChange of one of the four overlay InputNumber fields with a number
handleOverlayChange(field, numValue) ==
    /\ mainVideo # NULL
    /\ mode = "merge"
    /\ selectedMaterial # NULL
    /\ overlayPosition # NULL
    /\ overlayPosition' = [overlayPosition EXCEPT ![field] = Max(0, numValue)]
    /\ UNCHANGED <<allVideos, mainVideo, previewVideo, selectedMaterial, mode,
                   duration, startTime, endTime, currentTime, cropArea,
                   videoDisplaySize>>
    /\ UNCHANGED <<draggedVideo, uploads, playerVars, syncVars, cropVars, overlayVars,
                   panelVars>>

\* the "reset to full frame" button, shown in crop mode when a crop box exists
handleResetCrop ==
    /\ mainVideo # NULL
    /\ mode = "crop"
    /\ cropArea # NULL
    /\ cropArea' = [x |-> 0, y |-> 0, width |-> mainVideo.width,
                    height |-> mainVideo.height]
    /\ UNCHANGED <<allVideos, mainVideo, previewVideo, selectedMaterial, mode,
                   duration, startTime, endTime, currentTime, overlayPosition,
                   videoDisplaySize>>
    /\ UNCHANGED <<draggedVideo, uploads, playerVars, syncVars, cropVars, overlayVars,
                   panelVars>>

\* parseInt(s, 10): NaN unless s, after leading blanks and an optional
\* sign, starts with a digit; otherwise the signed value of its leading
\* digits
parseIntSigned(s) ==
    LET t == TrimStart(s)
        signed == t # <<>> /\ Head(t) \in {"-", "+"}
        body == IF signed THEN Tail(t) ELSE t
        digits == LeadingDigits(body)
        value == DigitsValue(digits, 0)
    IN  IF digits = <<>> THEN [nan |-> TRUE]
        ELSE [nan |-> FALSE,
              value |-> IF signed /\ Head(t) = "-" THEN -value ELSE value]

\* the area handleCropInputBlur stores for the number numValue in `field`
cropInputArea(field, numValue) ==
    CASE field = "x" ->
           [cropArea EXCEPT !.x =
               Max(0, Min(numValue, mainVideo.width - cropArea.width))]
      [] field = "y" ->
           [cropArea EXCEPT !.y =
               Max(0, Min(numValue, mainVideo.height - cropArea.height))]
      [] field = "width" ->
           [cropArea EXCEPT !.width =
               Max(minSize, Min(numValue, mainVideo.width - cropArea.x))]
      [] field = "height" ->
           [cropArea EXCEPT !.height =
               Max(minSize, Min(numValue, mainVideo.height - cropArea.y))]

\* handleCropInputBlur(field) with cropInputs[field] = inputValue: the X,
\* Y, width and height fields of the panel, shown in crop mode when a crop
\* box exists, after handleCropInputChange stored what was typed
handleCropInputBlur(field, inputValue) ==
    /\ mainVideo # NULL
    /\ mode = "crop"
    /\ cropArea # NULL
    /\ LET parsed == parseIntSigned(inputValue)
       IN  cropArea' = IF inputValue = <<>> \/ parsed.nan THEN cropArea
                       ELSE cropInputArea(field, parsed.value)
    /\ UNCHANGED <<allVideos, mainVideo, previewVideo, selectedMaterial, mode,
                   duration, startTime, endTime, currentTime, overlayPosition,
                   videoDisplaySize>>
    /\ UNCHANGED <<draggedVideo, uploads, playerVars, syncVars, cropVars,
                   overlayVars, panelVars>>

-----------------------------------------------------------------------------
(* PropertyPanel: submitting a job and polling it                          *)

\* setTimeout(..., 1000)
pollDelay == 1000

\* ids the processing service hands out for its i-th job
TaskId(i) ==
    CASE i = 1 -> "t1" [] i = 2 -> "t2" [] i = 3 -> "t3" [] OTHER -> "t4"
ResultId(i) ==
    CASE i = 1 -> "r1" [] i = 2 -> "r2" [] i = 3 -> "r3" [] OTHER -> "r4"

\* One entry of jobs per click on the confirm button: what the async
\* handler and the pollTaskStatus closure it calls hold (the props of the
\* render in which the button was clicked), the request it sent, and where
\* the handler stands:
\*   phase     "submit" (awaiting cropVideo / overlayVideo), "polling",
\*             "stopped"
\*   requests  getTaskStatus calls awaiting their response
\*   timers    the delays of the pending setTimeout calls
\*   polls     getTaskStatus calls issued so far (it stops counting at
\*             MaxPolls), observed: the last status read, outcome: how the
\*             handler ended, asset: the VideoFile it exported
NewJob(sourceType, request) ==
    [sourceType |-> sourceType, request |-> request, phase |-> "submit",
     taskId |-> "", format |-> mainVideo.format,
     mainVideo |-> mainVideo, startTime |-> startTime, endTime |-> endTime,
     cropArea |-> cropArea, overlayPosition |-> overlayPosition,
     requests |-> 0, timers |-> <<>>, polls |-> 0,
     observed |-> "none", outcome |-> "none", asset |-> NULL]

cropRequest ==
    [file_id |-> mainVideo.id, start_time |-> startTime,
     end_time |-> endTime, crop_area |-> cropArea,
     output_format |-> mainVideo.format]

overlayRequest ==
    [main_file_id |-> mainVideo.id, overlay_file_id |-> selectedMaterial.id,
     start_time |-> startTime, end_time |-> endTime,
     position |-> overlayPosition, output_format |-> mainVideo.format]

\* The confirm button is a TDesign Button with loading={processing}: it
\* takes no click while processing is set.
handleConfirmCrop ==
    /\ mainVideo # NULL
    /\ mode = "crop"
    /\ ~processing
    /\ Len(jobs) < MaxJobs
    /\ processing' = TRUE
    /\ task' = [taskId |-> "", status |-> "pending", progress |-> 0]
    /\ jobs' = Append(jobs, NewJob("crop", cropRequest))
    /\ UNCHANGED lastMessage
    /\ UNCHANGED <<editorVars, draggedVideo, uploads, playerVars, syncVars, cropVars,
                   overlayVars>>

handleConfirmOverlay ==
    /\ mainVideo # NULL
    /\ mode = "merge"
    /\ ~processing
    /\ Len(jobs) < MaxJobs
    /\ IF selectedMaterial = NULL \/ overlayPosition = NULL
       THEN /\ lastMessage' = [theme |-> "warning", text |-> "select a material"]
            /\ UNCHANGED <<processing, task, jobs>>
       ELSE /\ processing' = TRUE
            /\ task' = [taskId |-> "", status |-> "pending", progress |-> 0]
            /\ jobs' = Append(jobs, NewJob("merge", overlayRequest))
            /\ UNCHANGED lastMessage
    /\ UNCHANGED <<editorVars, draggedVideo, uploads, playerVars, syncVars, cropVars,
                   overlayVars>>

\* what cropVideo / overlayVideo can do: resolve with the new task, resolve
\* without success (the service answered with an error, whose text it may
\* or may not give), or reject (fetch or response.json() threw)
SubmitOutcomes ==
    {[kind |-> "ok"], [kind |-> "rejected", error |-> "bad request"],
     [kind |-> "rejected", error |-> "undefined"], [kind |-> "throws"]}

\* the else branch without its setProcessing(false) and setTask(null)
submitRejectedStuck(i, error) ==
    /\ lastMessage' = [theme |-> "error",
                       text |-> IF error # "undefined" THEN error
                                ELSE "submit failed"]
    /\ jobs' = [jobs EXCEPT ![i].phase = "stopped",
                            ![i].outcome = "rejected"]
    /\ UNCHANGED <<processing, task>>

\* the else branch of handleConfirmCrop / handleConfirmOverlay: the service
\* did not accept the job
submitRejected(i, error) ==
    /\ processing' = FALSE
    /\ task' = NULL
    /\ lastMessage' = [theme |-> "error",
                       text |-> IF error # "undefined" THEN error
                                ELSE "submit failed"]
    /\ jobs' = [jobs EXCEPT ![i].phase = "stopped",
                            ![i].outcome = "rejected"]

\* the continuation of handleConfirmCrop / handleConfirmOverlay after the
\* await; with the new task it calls pollTaskStatus, which issues the first
\* getTaskStatus
SubmitResponse(i, result) ==
    /\ i \in 1..Len(jobs)
    /\ jobs[i].phase = "submit"
    /\ result \in SubmitOutcomes
    /\ CASE result.kind = "ok" ->
              /\ task' = [taskId |-> TaskId(i), status |-> "pending",
                          progress |-> 0]
              /\ jobs' = [jobs EXCEPT ![i].phase = "polling",
                                      ![i].taskId = TaskId(i),
                                      ![i].requests = 1,
                                      ![i].polls = 1]
              /\ UNCHANGED <<processing, lastMessage>>
         [] result.kind = "rejected" -> submitRejected(i, result.error)
         [] result.kind = "throws" ->
              /\ jobs' = [jobs EXCEPT ![i].phase = "stopped",
                                      ![i].outcome = "submit threw"]
              /\ UNCHANGED <<processing, task, lastMessage>>
    /\ UNCHANGED <<editorVars, draggedVideo, uploads, playerVars, syncVars, cropVars,
                   overlayVars>>

\* a pending setTimeout fires: pollTaskStatus runs again and issues
\* getTaskStatus
PollTimer(i) ==
    /\ i \in 1..Len(jobs)
    /\ jobs[i].timers # <<>>
    /\ jobs' = [jobs EXCEPT ![i].timers = Tail(@),
                            ![i].requests = @ + 1,
                            ![i].polls = Min(@ + 1, MaxPolls)]
    /\ UNCHANGED <<processing, task, lastMessage>>
    /\ UNCHANGED <<editorVars, draggedVideo, uploads, playerVars, syncVars, cropVars,
                   overlayVars>>

\* newVideo built from the session as it is when the task completes
newVideoFromSession(job, fileId) ==
    [id |-> fileId,
     duration |-> endTime - startTime,
     width |-> IF cropArea # NULL /\ cropArea.width # 0
               THEN cropArea.width ELSE mainVideo.width,
     height |-> IF cropArea # NULL /\ cropArea.height # 0
                THEN cropArea.height ELSE mainVideo.height,
     fps |-> mainVideo.fps,
     frameCount |-> Round((endTime - startTime) * mainVideo.fps,
                          TicksPerSecond),
     format |-> mainVideo.format,
     sourceType |-> IF mode = "crop" THEN "crop" ELSE "merge",
     parentId |-> mainVideo.id]

\* the VideoFile pollTaskStatus builds for a completed task, from its own
\* closure (job) and the id the service reported
newVideo(job, fileId) ==
    [id |-> fileId,
     duration |-> job.endTime - job.startTime,
     width |-> IF job.cropArea # NULL /\ job.cropArea.width # 0
               THEN job.cropArea.width ELSE job.mainVideo.width,
     height |-> IF job.cropArea # NULL /\ job.cropArea.height # 0
                THEN job.cropArea.height ELSE job.mainVideo.height,
     fps |-> job.mainVideo.fps,
     frameCount |-> Round((job.endTime - job.startTime) * job.mainVideo.fps,
                          TicksPerSecond),
     format |-> job.format,
     sourceType |-> job.sourceType,
     parentId |-> job.mainVideo.id]

\* what getTaskStatus can do for the i-th job: resolve with the task in one
\* of its four states, resolve without success, or reject
PollResults(i) ==
    {[kind |-> "data", status |-> "pending", progress |-> 0,
      resultFileId |-> "undefined", error |-> "undefined"],
     [kind |-> "data", status |-> "processing", progress |-> 40,
      resultFileId |-> "undefined", error |-> "undefined"],
     [kind |-> "data", status |-> "completed", progress |-> 100,
      resultFileId |-> ResultId(i), error |-> "undefined"],
     [kind |-> "data", status |-> "completed", progress |-> 100,
      resultFileId |-> "undefined", error |-> "undefined"],
     [kind |-> "data", status |-> "failed", progress |-> 40,
      resultFileId |-> "undefined", error |-> "ffmpeg failed"],
     [kind |-> "data", status |-> "failed", progress |-> 0,
      resultFileId |-> "undefined", error |-> "undefined"],
     [kind |-> "no success"],
     [kind |-> "throws"]}

\* pollTaskStatus without its setTimeout
timersAfterNone(timers, status) == timers

\* pollTaskStatus with a setTimeout for a pending task only
timersAfterPendingOnly(timers, status) ==
    IF status = "pending" THEN Append(timers, pollDelay) ELSE timers

\* the timers of a job after a response with this status: one more
\* setTimeout while the task is pending or processing
timersAfter(timers, status) ==
    IF status = "processing" \/ status = "pending"
    THEN Append(timers, pollDelay) ELSE timers

\* the failed branch without its setProcessing(false) and setTask(null)
taskFailedStuck(i, job, error) ==
    /\ lastMessage' = [theme |-> "error",
                       text |-> IF error # "undefined" THEN error
                                ELSE "processing failed"]
    /\ jobs' = [jobs EXCEPT ![i] = [job EXCEPT !.observed = "failed",
                                               !.phase = "stopped",
                                               !.outcome = "failed"]]
    /\ UNCHANGED <<allVideos, processing, task>>

\* the failed branch of pollTaskStatus, for the job record `job` of job i
taskFailed(i, job, error) ==
    /\ processing' = FALSE
    /\ task' = NULL
    /\ lastMessage' = [theme |-> "error",
                       text |-> IF error # "undefined" THEN error
                                ELSE "processing failed"]
    /\ jobs' = [jobs EXCEPT ![i] = [job EXCEPT !.observed = "failed",
                                               !.phase = "stopped",
                                               !.outcome = "failed"]]
    /\ UNCHANGED allVideos

\* the else branch with a setTimeout of its own: the request is made again
statusNotReadRetry(i, job) ==
    /\ jobs' = [jobs EXCEPT ![i] = [job EXCEPT !.timers = Append(@, pollDelay)]]
    /\ UNCHANGED <<processing, task, lastMessage, allVideos>>

\* the else branch of pollTaskStatus: getTaskStatus resolved without success
\* (the service answered the status request with an error); it is logged
statusNotRead(i, job) ==
    /\ jobs' = [jobs EXCEPT ![i] = [job EXCEPT !.phase = "stopped",
                                               !.outcome = "no success"]]
    /\ UNCHANGED <<processing, task, lastMessage, allVideos>>

\* the catch branch of pollTaskStatus: getTaskStatus rejected (fetch or
\* response.json() threw)
pollThrew(i, job) ==
    /\ processing' = FALSE
    /\ task' = NULL
    /\ jobs' = [jobs EXCEPT ![i] = [job EXCEPT !.phase = "stopped",
                                               !.outcome = "poll threw"]]
    /\ UNCHANGED <<lastMessage, allVideos>>

\* the continuation of pollTaskStatus after await getTaskStatus(taskId)
PollResponse(i, result) ==
    /\ i \in 1..Len(jobs)
    /\ jobs[i].requests > 0
    /\ result \in PollResults(i)
    /\ LET job == [jobs[i] EXCEPT !.requests = @ - 1]
           data == [taskId |-> job.taskId, status |-> result.status,
                    progress |-> result.progress]
       IN  CASE result.kind = "data" /\ result.status \in {"pending", "processing"} ->
                  /\ task' = data
                  /\ jobs' = [jobs EXCEPT ![i] =
                        [job EXCEPT !.observed = result.status,
                                    !.timers =
                                        timersAfter(@, result.status)]]
                  /\ UNCHANGED <<processing, lastMessage, allVideos>>
             [] result.kind = "data" /\ result.status = "completed" ->
                  LET fileId == IF result.resultFileId # "undefined"
                                THEN result.resultFileId ELSE job.taskId
                      video == newVideo(job, fileId)
                  IN  /\ processing' = FALSE
                      /\ handleVideoExported(video)
                      /\ task' = NULL
                      /\ lastMessage' = [theme |-> "success",
                                         text |-> "added to the library"]
                      /\ jobs' = [jobs EXCEPT ![i] =
                            [job EXCEPT !.observed = "completed",
                                        !.phase = "stopped",
                                        !.outcome = "completed",
                                        !.asset = video]]
             [] result.kind = "data" /\ result.status = "failed" ->
                  taskFailed(i, job, result.error)
             [] result.kind = "no success" -> statusNotRead(i, job)
             [] result.kind = "throws" -> pollThrew(i, job)
    /\ UNCHANGED <<mainVideo, previewVideo, selectedMaterial, mode, duration,
                   startTime, endTime, currentTime, cropArea, overlayPosition,
                   videoDisplaySize>>
    /\ UNCHANGED <<draggedVideo, uploads, playerVars, syncVars, cropVars, overlayVars>>

-----------------------------------------------------------------------------
(* The session: uploads, the library, the player, the panel and its jobs   *)

\* what the user and the environment put in
SessionVideos == {VideoA, VideoB}
SessionSizes == {[width |-> 128, height |-> 96]}
SeekTimes == {TicksPerSecond \div 2}
SessionPointers == {[x |-> 40, y |-> 30]}
Modes == {"crop", "merge"}

Next ==
    \/ \E video \in SessionVideos, via \in {"panel", "uploader"} :
          UploadStart(video, via)
    \/ \E u \in uploads : UploadDone(u)
    \/ \E u \in uploads : UploadFailed(u)
    \/ \E video \in Cards : CardClick(video)
    \/ \E video \in Cards : CardDoubleClick(video)
    \/ \E video \in Cards : CardDelete(video)
    \/ \E video \in Cards : CardDragToMainSlot(video)
    \/ \E newMode \in Modes : ModeButton(newMode)
    \/ KeyDownS
    \/ KeyDownE
    \/ handleLoadedMetadata
    \/ \E size \in SessionSizes : updateVideoSize(size)
    \/ \E time \in SeekTimes : handleSeek(time)
    \/ OverlayRemoveButton
    \/ \E card \in Cards, p \in SessionPointers : handleDrop(card, p.x, p.y)

Spec == Init /\ [][Next]_vars

-----------------------------------------------------------------------------
(* Jobs: a session with a main video and a material, and the panel's jobs   *)

\* VideoA was uploaded in the empty editor and became the main video, its
\* metadata and size were reported, then VideoB was uploaded from the panel
InitJobs ==
    /\ allVideos = <<VideoB, VideoA>>
    /\ mainVideo = VideoA
    /\ previewVideo = VideoA
    /\ selectedMaterial = NULL
    /\ mode = "crop"
    /\ duration = VideoA.duration
    /\ startTime = 0
    /\ endTime = VideoA.duration
    /\ currentTime = 0
    /\ cropArea = NULL
    /\ overlayPosition = NULL
    /\ videoDisplaySize = [width |-> 128, height |-> 96]
    /\ draggedVideo = NULL
    /\ uploads = {}
    /\ playerTime = 0
    /\ playerDuration = VideoA.duration
    /\ metadataPending = FALSE
    /\ playing = FALSE
    /\ videoTime = 0
    /\ dragging = FALSE
    /\ resizing = "none"
    /\ dragStart = [x |-> 0, y |-> 0]
    /\ initialArea = NULL
    /\ isDragging = FALSE
    /\ isResizing = FALSE
    /\ overlayDragStart = [x |-> 0, y |-> 0, posX |-> 0, posY |-> 0]
    /\ resizeStart = [x |-> 0, y |-> 0, width |-> 0, height |-> 0]
    /\ resizeTarget = "none"
    /\ isPlaying = FALSE
    /\ overlayCurrentTime = 0
    /\ overlayPaused = TRUE
    /\ processing = FALSE
    /\ task = NULL
    /\ jobs = <<>>
    /\ lastMessage = NULL

\* what the user does while a job runs: typed times, a click in the frame,
\* the material made the main video
JobTimeEntries == {<<"0", ".", "5">>}
JobPointers == {[x |-> 40, y |-> 30]}
JobMainVideos == {VideoB}

NextJobs ==
    \/ \E newMode \in Modes : ModeButton(newMode)
    \/ \E entry \in JobTimeEntries : handleStartTimeBlur(entry)
    \/ \E video \in Cards : CardDoubleClick(video)
    \/ \E video \in Cards \cap JobMainVideos : CardDragToMainSlot(video)
    \/ \E p \in JobPointers : handleOverlayClick(p.x, p.y)
    \/ handleConfirmCrop
    \/ handleConfirmOverlay
    \/ \E i \in 1..Len(jobs), result \in SubmitOutcomes : SubmitResponse(i, result)
    \/ \E i \in 1..Len(jobs) : PollTimer(i)
    \/ \E i \in 1..Len(jobs) : \E result \in PollResults(i) :
          PollResponse(i, result)

SpecJobs == InitJobs /\ [][NextJobs]_vars

-----------------------------------------------------------------------------
(* Crop: the crop box over a main video                                    *)

\* the state of InitJobs with `video` as the uploaded main video and the
\* player measured as `size`
Loaded(video, size) ==
    /\ allVideos = <<video>>
    /\ mainVideo = video
    /\ previewVideo = video
    /\ selectedMaterial = NULL
    /\ mode = "crop"
    /\ duration = video.duration
    /\ startTime = 0
    /\ endTime = video.duration
    /\ currentTime = 0
    /\ cropArea = NULL
    /\ overlayPosition = NULL
    /\ videoDisplaySize = size
    /\ draggedVideo = NULL
    /\ uploads = {}
    /\ playerTime = 0
    /\ playerDuration = video.duration
    /\ metadataPending = FALSE
    /\ playing = FALSE
    /\ videoTime = 0
    /\ dragging = FALSE
    /\ resizing = "none"
    /\ dragStart = [x |-> 0, y |-> 0]
    /\ initialArea = NULL
    /\ isDragging = FALSE
    /\ isResizing = FALSE
    /\ overlayDragStart = [x |-> 0, y |-> 0, posX |-> 0, posY |-> 0]
    /\ resizeStart = [x |-> 0, y |-> 0, width |-> 0, height |-> 0]
    /\ resizeTarget = "none"
    /\ isPlaying = FALSE
    /\ overlayCurrentTime = 0
    /\ overlayPaused = TRUE
    /\ processing = FALSE
    /\ task = NULL
    /\ jobs = <<>>
    /\ lastMessage = NULL

\* main videos: two whose frame is at least minSize wide and high and one
\* whose frame is smaller; the sizes of the player: twice the frame of
\* VideoA, and a square
CropVideos == {VideoA, VideoB, VideoC}
CropSizes == {[width |-> 128, height |-> 96], [width |-> 96, height |-> 96]}

\* where the pointer goes down, where it moves in a run, and the positions
\* for which the properties evaluate a gesture
CropDownPointers == {[x |-> 48, y |-> 48]}
CropMoves ==
    {[x |-> -150, y |-> -150], [x |-> 80, y |-> 72], [x |-> 250, y |-> 250]}
CropPointers ==
    CropMoves \cup {[x |-> px, y |-> py] : px \in {-150, 41, 48, 63, 250},
                                           py \in {-150, 48, 59, 250}}

InitCrop == \E video \in CropVideos, size \in CropSizes : Loaded(video, size)

NextCrop ==
    \/ \E p \in CropDownPointers : handleOverlayClick(p.x, p.y)
    \/ \E p \in CropDownPointers, handle \in Handles \cup {"none"} :
          handleMouseDown(p.x, p.y, handle)
    \/ \E p \in CropMoves : handleMouseMove(p.x, p.y)
    \/ handleMouseUp
    \/ handleResetCrop

SpecCrop == InitCrop /\ [][NextCrop]_vars

-----------------------------------------------------------------------------
(* Properties of the crop box                                              *)

\* the Rectangle invariant in a frame of w x h
RectangleInvariant(r, w, h) ==
    /\ r.x \in Int /\ r.y \in Int /\ r.width \in Int /\ r.height \in Int
    /\ r.x >= 0 /\ r.y >= 0
    /\ r.x + r.width <= w /\ r.y + r.height <= h
    /\ r.width >= minSize /\ r.height >= minSize

\* a move or resize of the crop box is under way
GestureActive ==
    /\ CropMounted
    /\ containerHeight > 0
    /\ dragging \/ resizing # "none"
    /\ initialArea # NULL

C2_SeResizeShrinks ==
    (GestureActive /\ resizing = "se"
        /\ RectangleInvariant(initialArea, videoWidth, videoHeight))
        => \A p \in CropPointers :
              LET d == fit.scaleNum
                  requested ==
                      resizedArea("se", (p.x - dragStart.x) * fit.scaleDen,
                                  (p.y - dragStart.y) * fit.scaleDen, d)
                  emitted == gestureArea(p.x, p.y)
              IN  /\ requested.width > (videoWidth - initialArea.x) * d
                        => /\ emitted.width = videoWidth - initialArea.x
                           /\ emitted.x = initialArea.x
                  /\ requested.height > (videoHeight - initialArea.y) * d
                        => /\ emitted.height = videoHeight - initialArea.y
                           /\ emitted.y = initialArea.y

-----------------------------------------------------------------------------
(* Overlay: placing a material over the main video                         *)

\* Loaded(VideoD, size) after VideoB was uploaded from the panel
InitOverlay ==
    /\ allVideos = <<VideoB, VideoD>>
    /\ mainVideo = VideoD
    /\ previewVideo = VideoD
    /\ selectedMaterial = NULL
    /\ mode = "crop"
    /\ duration = VideoD.duration
    /\ startTime = 0
    /\ endTime = VideoD.duration
    /\ currentTime = 0
    /\ cropArea = NULL
    /\ overlayPosition = NULL
    /\ videoDisplaySize = [width |-> 320, height |-> 240]
    /\ draggedVideo = NULL
    /\ uploads = {}
    /\ playerTime = 0
    /\ playerDuration = VideoD.duration
    /\ metadataPending = FALSE
    /\ playing = FALSE
    /\ videoTime = 0
    /\ dragging = FALSE
    /\ resizing = "none"
    /\ dragStart = [x |-> 0, y |-> 0]
    /\ initialArea = NULL
    /\ isDragging = FALSE
    /\ isResizing = FALSE
    /\ overlayDragStart = [x |-> 0, y |-> 0, posX |-> 0, posY |-> 0]
    /\ resizeStart = [x |-> 0, y |-> 0, width |-> 0, height |-> 0]
    /\ resizeTarget = "none"
    /\ isPlaying = FALSE
    /\ overlayCurrentTime = 0
    /\ overlayPaused = TRUE
    /\ processing = FALSE
    /\ task = NULL
    /\ jobs = <<>>
    /\ lastMessage = NULL

\* the limits of the four InputNumber fields (allowInputOverLimit = false)
OverlayFieldLimits(field, numValue) ==
    CASE field = "x" -> 0 <= numValue /\ numValue <= mainVideo.width
      [] field = "y" -> 0 <= numValue /\ numValue <= mainVideo.height
      [] field = "width" -> minSize <= numValue
      [] field = "height" -> minSize <= numValue

OverlayFields == {"x", "y", "width", "height"}
OverlayFieldValues == {160}
OverlayDownPointers == {[x |-> 10, y |-> 10]}
OverlayMoves == {[x |-> 450, y |-> 450]}
OverlayDrops == {[x |-> 100, y |-> 100]}

NextOverlay ==
    \/ \E newMode \in Modes : ModeButton(newMode)
    \/ \E video \in Cards : CardDoubleClick(video)
    \/ \E card \in materialVideos, p \in OverlayDrops :
          handleDrop(card, p.x, p.y)
    \/ \E p \in OverlayDownPointers : overlayMouseDown(p.x, p.y)
    \/ \E p \in OverlayDownPointers : handleResizeMouseDown(p.x, p.y)
    \/ \E p \in OverlayMoves : overlayMouseMove(p.x, p.y)
    \/ overlayMouseUp
    \/ \E field \in OverlayFields, numValue \in OverlayFieldValues :
          /\ OverlayFieldLimits(field, numValue)
          /\ handleOverlayChange(field, numValue)
    \/ OverlayRemoveButton

SpecOverlay == InitOverlay /\ [][NextOverlay]_vars

\* C3: whatever set it (the default of a selected material, a drop on the
\* player, a drag, a corner resize, an edit of the X, Y, width or height
\* field), the overlay placement has integer fields, lies in the main
\* video's frame and is at least minSize wide and high.
C3_OverlayPlacement ==
    (mainVideo # NULL /\ overlayPosition # NULL)
        => RectangleInvariant(overlayPosition, mainVideo.width,
                              mainVideo.height)

-----------------------------------------------------------------------------
(* Range: the edit range of a session with a main video and a material     *)

RangeSeekTimes == {TicksPerSecond}
RangeEntries == {<<"0", ".", "5">>, <<"1", ".", "5">>}

NextRange ==
    \/ \E video \in Cards : CardDragToMainSlot(video)
    \/ \E video \in Cards : CardClick(video)
    \/ \E video \in Cards : CardDoubleClick(video)
    \/ handleLoadedMetadata
    \/ \E time \in RangeSeekTimes : handleSeek(time)
    \/ KeyDownS
    \/ KeyDownE
    \/ \E entry \in RangeEntries : handleStartTimeBlur(entry)
    \/ \E entry \in RangeEntries : handleEndTimeBlur(entry)
    \/ \E entry \in RangeEntries : handleDurationBlur(entry)
    \/ \E entry \in RangeEntries : handleMergeStartTimeBlur(entry)
    \/ \E newMode \in Modes : ModeButton(newMode)

SpecRange == InitJobs /\ [][NextRange]_vars

\* C4: while there is a main video, whatever the session did (another main
\* video, the S and E keys, the start, end and duration fields, the mode
\* buttons, the selection of a material, previews of other videos), the
\* edit range satisfies 0 <= startTime < endTime <= the main video's duration.
C4_EditRange ==
    mainVideo # NULL
        => /\ 0 <= startTime
           /\ startTime < endTime
           /\ endTime <= mainVideo.duration

-----------------------------------------------------------------------------
(* Properties of the jobs                                                  *)

JobIds == 1..Len(jobs)

\* job i has, in this step, taken a response to a status request
PollAnswered(i) == jobs'[i].requests < jobs[i].requests

\* job i ends, in this step, with this outcome
Ends(i, outcome) == jobs[i].outcome = "none" /\ jobs'[i].outcome = outcome

\* C5: once a job is accepted it is polled one request at a time: a
\* response with status pending or processing leaves exactly one new timer,
\* of pollDelay; nothing but a response ends the polling, however many
\* requests were made (a pending timer can always fire); and after a
\* completed or failed response the job has no timer and no request, ever.
C5_PollLifecycle ==
    /\ [](\A i \in JobIds :
            /\ jobs[i].phase = "polling"
                  => jobs[i].requests + Len(jobs[i].timers) = 1
            /\ \A k \in 1..Len(jobs[i].timers) : jobs[i].timers[k] = pollDelay
            /\ jobs[i].timers # <<>> => ENABLED PollTimer(i)
            /\ jobs[i].observed \in {"completed", "failed"}
                  => /\ jobs[i].phase = "stopped"
                     /\ jobs[i].requests = 0
                     /\ jobs[i].timers = <<>>)
    /\ [][\A i \in JobIds :
            /\ (PollAnswered(i) /\ jobs'[i].outcome = "none")
                  => /\ jobs'[i].observed \in {"pending", "processing"}
                     /\ task'.status = jobs'[i].observed
                     /\ jobs'[i].phase = "polling"
                     /\ jobs'[i].timers = Append(jobs[i].timers, pollDelay)
                     /\ jobs'[i].requests = 0
            /\ (jobs[i].phase = "polling" /\ jobs'[i].phase # "polling")
                  => PollAnswered(i)
            /\ jobs[i].phase = "stopped"
                  => /\ jobs'[i].polls = jobs[i].polls
                     /\ jobs'[i].requests = 0
                     /\ jobs'[i].timers = <<>>]_vars

\* C5 witness: a job that has made MaxPolls status requests or more was
\* answered "processing" and waits on its next timer
C5_Witness ==
    \E i \in JobIds :
        /\ jobs[i].polls = MaxPolls
        /\ jobs[i].observed = "processing"
        /\ jobs[i].timers = <<pollDelay>>
        /\ task # NULL /\ task.status = "processing"

\* C6: in the step in which a job is seen completed, the library grows by
\* exactly the job's one new asset, at its end, with every asset it had
\* still in place, and the main video, the mode, the crop region, the
\* overlay placement and the edit range stay as they are.
C6_CompletedAppendsOne ==
    [][\A i \in JobIds :
         Ends(i, "completed")
            => /\ jobs'[i].asset # NULL
               /\ Len(allVideos') = Len(allVideos) + 1
               /\ allVideos'[Len(allVideos')] = jobs'[i].asset
               /\ \A k \in 1..Len(allVideos) : allVideos'[k] = allVideos[k]
               /\ UNCHANGED <<mainVideo, mode, cropArea, overlayPosition,
                              startTime, endTime>>]_vars

\* C6 witness: a job has completed and its asset is the last of the library,
\* after the two uploads
C6_Witness ==
    \E i \in JobIds :
        /\ jobs[i].outcome = "completed"
        /\ Len(allVideos) = 3
        /\ allVideos[3] = jobs[i].asset
        /\ allVideos[1] = VideoB /\ allVideos[2] = VideoA
        /\ mainVideo = VideoA

\* the request of a job is a crop request
IsCropRequest(request) == "file_id" \in DOMAIN request

\* the main video's id in a request
RequestMainId(request) ==
    IF IsCropRequest(request) THEN request.file_id ELSE request.main_file_id

\* C7: the asset of a completed job comes from what was submitted, not from
\* the session as it is at completion: its duration is the request's
\* end_time - start_time, its frameCount round(duration * fps of the main
\* video of the submission), its format the request's output format, its
\* sourceType crop or merge as the request was, its parent the request's
\* main video.
C7_AssetFromSubmission ==
    \A i \in JobIds :
        jobs[i].outcome = "completed"
            => LET request == jobs[i].request
                   asset == jobs[i].asset
                   length == request.end_time - request.start_time
               IN  /\ asset.duration = length
                   /\ asset.frameCount =
                         Round(length * jobs[i].mainVideo.fps, TicksPerSecond)
                   /\ jobs[i].mainVideo.id = RequestMainId(request)
                   /\ asset.fps = jobs[i].mainVideo.fps
                   /\ asset.format = request.output_format
                   /\ asset.sourceType =
                         (IF IsCropRequest(request) THEN "crop" ELSE "merge")
                   /\ asset.parentId = RequestMainId(request)

\* C7 witness: a crop job has completed in a session that is no longer the
\* one of its submission: another main video, another edit range, merge mode
C7_Witness ==
    \E i \in JobIds :
        /\ jobs[i].outcome = "completed"
        /\ IsCropRequest(jobs[i].request)
        /\ mainVideo # NULL
        /\ jobs[i].asset.parentId # mainVideo.id
        /\ jobs[i].asset.duration # endTime - startTime
        /\ jobs[i].request.start_time # startTime
        /\ mode = "merge"

\* C8: the asset of a completed job is as wide and high as the crop region
\* of its request when the request has one, and as the main video of the
\* submission when it has none (a crop request without a region, and every
\* overlay request).
C8_ResultSize ==
    \A i \in JobIds :
        jobs[i].outcome = "completed"
            => LET request == jobs[i].request
                   asset == jobs[i].asset
               IN  IF IsCropRequest(request) /\ request.crop_area # NULL
                   THEN /\ asset.width = request.crop_area.width
                        /\ asset.height = request.crop_area.height
                   ELSE /\ asset.width = jobs[i].mainVideo.width
                        /\ asset.height = jobs[i].mainVideo.height

\* the messages the service can give for a failed task or a refused job
ServiceErrors == {"ffmpeg failed", "bad request"}

\* C9: in the step in which a job is seen failed, no asset is made, the
\* panel is idle (no task, not processing) and the job has no timer and no
\* request, an error message is shown (the service's, or the fallback), and
\* the library and the main video stay as they are.
C9_FailedDiscards ==
    [][\A i \in JobIds :
         Ends(i, "failed")
            => /\ jobs'[i].asset = NULL
               /\ processing' = FALSE
               /\ task' = NULL
               /\ jobs'[i].phase = "stopped"
               /\ jobs'[i].requests = 0 /\ jobs'[i].timers = <<>>
               /\ lastMessage'.theme = "error"
               /\ lastMessage'.text \in ServiceErrors \cup {"processing failed"}
               /\ UNCHANGED <<allVideos, mainVideo>>]_vars

\* C9 witness: a job was seen failed without a message of the service
C9_Witness ==
    \E i \in JobIds :
        /\ jobs[i].outcome = "failed"
        /\ jobs[i].polls = MaxPolls
        /\ ~processing /\ task = NULL
        /\ lastMessage = [theme |-> "error", text |-> "processing failed"]
        /\ Len(allVideos) = 2

\* C10: in the step in which the service refuses a job, the panel is idle
\* (no task, not processing), and the library and the main video stay as
\* they are; and for a refused job no status request is ever made and no
\* timer set.
C10_RejectedFailsFast ==
    /\ [](\A i \in JobIds :
            jobs[i].outcome = "rejected"
               => /\ jobs[i].polls = 0
                  /\ jobs[i].requests = 0
                  /\ jobs[i].timers = <<>>
                  /\ jobs[i].phase = "stopped"
                  /\ jobs[i].asset = NULL)
    /\ [][\A i \in JobIds :
            Ends(i, "rejected")
               => /\ processing' = FALSE
                  /\ task' = NULL
                  /\ lastMessage'.theme = "error"
                  /\ UNCHANGED <<allVideos, mainVideo>>]_vars

\* C10 witness: an overlay job was refused and the panel is idle
C10_Witness ==
    \E i \in JobIds :
        /\ jobs[i].outcome = "rejected"
        /\ ~IsCropRequest(jobs[i].request)
        /\ ~processing /\ task = NULL
        /\ lastMessage = [theme |-> "error", text |-> "submit failed"]

\* the responses to a status request that cannot be read
Unreadable == {[kind |-> "no success"], [kind |-> "throws"]}

\* C11: in the step in which a status request throws or is answered without
\* success, the job stops with no timer, no request and no asset, and the
\* library stays as it is; such a job never has a timer or a request again
\* and makes no further status request.
C11_UnreadablePollStops ==
    /\ [](\A i \in JobIds :
            jobs[i].outcome \in {"no success", "poll threw"}
               => /\ jobs[i].phase = "stopped"
                  /\ jobs[i].requests = 0
                  /\ jobs[i].timers = <<>>
                  /\ ~ENABLED PollTimer(i)
                  /\ jobs[i].asset = NULL)
    /\ [][\A i \in JobIds :
            /\ (\E result \in Unreadable : PollResponse(i, result))
                  => /\ jobs'[i].outcome \in {"no success", "poll threw"}
                     /\ jobs'[i].timers = <<>>
                     /\ jobs'[i].requests = 0
                     /\ jobs'[i].asset = NULL
                     /\ UNCHANGED allVideos
            /\ jobs[i].outcome \in {"no success", "poll threw"}
                  => /\ jobs'[i].polls = jobs[i].polls
                     /\ jobs'[i].outcome = jobs[i].outcome]_vars

\* C11 witness: the second status request of a job was answered without
\* success; the job has stopped and the library holds the two uploads
C11_Witness ==
    \E i \in JobIds :
        /\ jobs[i].outcome = "no success"
        /\ jobs[i].polls = MaxPolls
        /\ jobs[i].observed = "pending"
        /\ jobs[i].timers = <<>> /\ jobs[i].requests = 0
        /\ Len(allVideos) = 2

-----------------------------------------------------------------------------
(* Properties of the session                                               *)

\* C12: in every step in which another video becomes the main video, the
\* edit range becomes the whole of the new main video (startTime 0, endTime
\* its duration), and the crop region, the overlay placement and the
\* selected material are cleared.
C12_PrimarySwitchResets ==
    [][(mainVideo' # NULL /\ IdOf(mainVideo') # IdOf(mainVideo))
          => /\ startTime' = 0
             /\ endTime' = mainVideo'.duration
             /\ cropArea' = NULL
             /\ overlayPosition' = NULL
             /\ selectedMaterial' = NULL]_vars

\* C12 witness: VideoB, the material of the session, is the main video with
\* the whole of it as the edit range, in merge mode, after the player was
\* moved to 1 s
C12_Witness ==
    /\ mainVideo = VideoB
    /\ previewVideo = VideoB
    /\ draggedVideo = VideoB
    /\ mode = "merge"
    /\ currentTime = TicksPerSecond
    /\ startTime = 0 /\ endTime = VideoB.duration
    /\ cropArea = NULL /\ overlayPosition = NULL /\ selectedMaterial = NULL

\* C13: in merge mode no crop region is defined.
C13_MergeHasNoCrop == mode = "merge" => cropArea = NULL

\* the crop region of the whole frame of the main video
fullFrame ==
    [x |-> 0, y |-> 0, width |-> mainVideo.width, height |-> mainVideo.height]

\* C14: a step of the crop-mode button clears the selected material and the
\* overlay placement, makes the whole frame of the main video the crop
\* region when there was none, and leaves a crop region that exists as it is.
C14_CropModeSwitch ==
    [][ModeButton("crop")
          => /\ mode' = "crop"
             /\ selectedMaterial' = NULL
             /\ overlayPosition' = NULL
             /\ cropArea' = IF cropArea = NULL THEN fullFrame ELSE cropArea]_vars

\* C14 witness: crop mode with no material and no placement, and with the
\* crop region a merge job was submitted with (a region smaller than the
\* frame, which was there in merge mode while a material was selected)
C14_Witness ==
    /\ mode = "crop"
    /\ selectedMaterial = NULL /\ overlayPosition = NULL
    /\ cropArea # NULL /\ cropArea # fullFrame
    /\ \E i \in JobIds :
          /\ ~IsCropRequest(jobs[i].request)
          /\ jobs[i].cropArea = cropArea
          /\ jobs[i].mainVideo = mainVideo

\* Math.round(n / 4) for n >= 0
Quarter(n) == (n + 2) \div 4

\* the placement C15 describes for a material over the main video
Seeded(video) ==
    [x |-> 0, y |-> 0,
     width |-> IF video.width < Quarter(mainVideo.width)
               THEN video.width ELSE Quarter(mainVideo.width),
     height |-> IF video.height < Quarter(mainVideo.height)
                THEN video.height ELSE Quarter(mainVideo.height)]

\* the materials C15 evaluates the default placement for
SeedVideos == {VideoA, VideoB, VideoC}

C16_DeletePrimary ==
    [][\A video \in Cards :
         (IdOf(mainVideo) = video.id /\ CardDelete(video))
            => /\ mainVideo' = NULL
               /\ previewVideo' = NULL
               /\ \A k \in 1..Len(allVideos') : allVideos'[k].id # video.id]_vars

\* C17: a step that deletes a card other than the main video's removes the
\* video from the library; clears the selected material and the placement
\* when it was the selected material and leaves them otherwise; makes the
\* main video the previewed one when it was previewed and leaves the preview
\* otherwise; and leaves the main video, the crop region and the edit range.
C17_DeleteMaterial ==
    [][\A video \in Cards :
         (IdOf(mainVideo) # video.id /\ CardDelete(video))
            => /\ \A k \in 1..Len(allVideos') : allVideos'[k].id # video.id
               /\ IF IdOf(selectedMaterial) = video.id
                  THEN selectedMaterial' = NULL /\ overlayPosition' = NULL
                  ELSE UNCHANGED <<selectedMaterial, overlayPosition>>
               /\ previewVideo' = IF IdOf(previewVideo) = video.id
                                  THEN mainVideo ELSE previewVideo
               /\ UNCHANGED <<mainVideo, cropArea, startTime, endTime>>]_vars

\* C17 witness: in merge mode over the main video VideoA, VideoB was the
\* last card dragged and is no longer in the library; there is no selected
\* material and no placement, and the main video is previewed
C17_Witness ==
    /\ mode = "merge"
    /\ mainVideo = VideoA
    /\ previewVideo = VideoA
    /\ draggedVideo = VideoB
    /\ allVideos = <<VideoA>>
    /\ selectedMaterial = NULL /\ overlayPosition = NULL

\* C18: a step of the S key in crop mode leaves endTime as it is and
\* startTime below it.
C18_SetStartBelowEnd ==
    [][(mode = "crop" /\ KeyDownS)
          => /\ endTime' = endTime
             /\ startTime' < endTime']_vars

\* C19: a step of the E key in crop mode leaves startTime as it is and sets
\* endTime to the play position, raised to startTime + 0.1 s and lowered to
\* the main video's duration, so that startTime < endTime <= duration; in
\* merge mode it changes neither.
C19_SetEnd ==
    [][KeyDownE
          => IF mode = "crop"
             THEN /\ startTime' = startTime
                  /\ startTime' < endTime'
                  /\ endTime' <= mainVideo.duration
                  /\ (startTime < currentTime
                         /\ currentTime <= mainVideo.duration)
                        => endTime' = currentTime
             ELSE UNCHANGED <<startTime, endTime>>]_vars

\* C19 witness: in crop mode, with the player at 1 s and startTime typed as
\* 0.5 s, endTime is the play position
C19_Witness ==
    /\ mode = "crop"
    /\ mainVideo = VideoA
    /\ previewVideo = VideoA
    /\ currentTime = TicksPerSecond
    /\ startTime = TicksPerSecond \div 2
    /\ endTime = currentTime

\* C20: in merge mode with a selected material, endTime is min(startTime +
\* the material's duration, the main video's duration); and the end_time of
\* a submitted overlay request is min(its start_time + the duration of its
\* material, the duration of its main video).
C20_MergeEndDerived ==
    /\ (mode = "merge" /\ mainVideo # NULL /\ selectedMaterial # NULL)
          => endTime = Min(startTime + selectedMaterial.duration,
                           mainVideo.duration)
    /\ \A i \in JobIds :
          ~IsCropRequest(jobs[i].request)
             => \E material \in {VideoA, VideoB} :
                   /\ material.id = jobs[i].request.overlay_file_id
                   /\ jobs[i].request.end_time =
                         Min(jobs[i].request.start_time + material.duration,
                             jobs[i].mainVideo.duration)

-----------------------------------------------------------------------------
(* Playback: the player and the overlay over it                            *)

\* how far the elements play between two events: the player's by PlayStep,
\* the overlay's as far or PlayLag less
PlayStep == TicksPerSecond \div 2
PlayLag == 2 * Tenth
PlaySeekTimes == {TicksPerSecond}
PlayDrops == {[x |-> 40, y |-> 30]}

NextPlayback ==
    \/ \E video \in Cards : CardDoubleClick(video)
    \/ \E card \in materialVideos, p \in PlayDrops : handleDrop(card, p.x, p.y)
    \/ OverlayRemoveButton
    \/ handleLoadedMetadata
    \/ \E time \in PlaySeekTimes : handleSeek(time)
    \/ KeyDownS
    \/ togglePlay
    \/ \E dOverlay \in {PlayStep, PlayStep - PlayLag} :
          Advance(PlayStep, dOverlay)
    \/ updateProgress
    \/ onEnded
    \/ handleTimeUpdate
    \/ \E direction \in {"forward", "backward"} :
          /\ videoTime = playerDuration
          /\ stepFrame(direction)

InitPlayback ==
    /\ allVideos = <<VideoB, VideoA>>
    /\ mainVideo = VideoA
    /\ previewVideo = VideoA
    /\ selectedMaterial = NULL
    /\ mode = "merge"
    /\ duration = VideoA.duration
    /\ startTime = 0
    /\ endTime = VideoA.duration
    /\ currentTime = 0
    /\ cropArea = NULL
    /\ overlayPosition = NULL
    /\ videoDisplaySize = [width |-> 128, height |-> 96]
    /\ draggedVideo = NULL
    /\ uploads = {}
    /\ playerTime = 0
    /\ playerDuration = VideoA.duration
    /\ metadataPending = FALSE
    /\ playing = FALSE
    /\ videoTime = 0
    /\ dragging = FALSE
    /\ resizing = "none"
    /\ dragStart = [x |-> 0, y |-> 0]
    /\ initialArea = NULL
    /\ isDragging = FALSE
    /\ isResizing = FALSE
    /\ overlayDragStart = [x |-> 0, y |-> 0, posX |-> 0, posY |-> 0]
    /\ resizeStart = [x |-> 0, y |-> 0, width |-> 0, height |-> 0]
    /\ resizeTarget = "none"
    /\ isPlaying = FALSE
    /\ overlayCurrentTime = 0
    /\ overlayPaused = TRUE
    /\ processing = FALSE
    /\ task = NULL
    /\ jobs = <<>>
    /\ lastMessage = NULL

SpecPlayback == InitPlayback /\ [][NextPlayback]_vars

-----------------------------------------------------------------------------
(* Properties of playback                                                  *)

C22_HiddenIsPaused ==
    (OverlayMounted /\ ~shouldShow) =>
        /\ overlayPaused
        /\ overlayStyle.opacity = 0
        /\ overlayStyle.pointerEvents = "none"

\* playing was requested, the player's time has left the window after the
\* overlay's video had played, and the overlay's video is paused
C22_Witness ==
    /\ OverlayMounted
    /\ playing
    /\ isPlaying
    /\ playerTime >= overlayEndTime
    /\ overlayCurrentTime > 0
    /\ overlayPaused

\* C23: a step that changes the player's time and leaves the player not
\* playing with the overlay visible leaves the overlay's video exactly at
\* the player's time minus the overlay's start, and paused.
C23_PausedSyncExact ==
    [][(/\ playerTime' # playerTime
        /\ OverlayMounted
        /\ OverlayMounted'
        /\ ~playing'
        /\ shouldShow')
       => /\ overlayCurrentTime' = playerTime' - startTime'
          /\ overlayPaused']_vars

\* C24: a tick of the playing player that advances the player's time and
\* leaves the overlay visible moves the overlay's video to the player's time minus the overlay's start if it
\* was more than 0.3 s away from it and leaves it where it was otherwise.
C24_SyncTolerance ==
    [][(/\ updateProgress
        /\ playerTime' > playerTime
        /\ OverlayMounted
        /\ OverlayMounted'
        /\ playing'
        /\ shouldShow')
       => LET expected == playerTime' - startTime'
          IN  /\ overlayCurrentTime' =
                    IF Abs(overlayCurrentTime - expected) > syncTolerance
                    THEN expected ELSE overlayCurrentTime
              /\ Abs(overlayCurrentTime' - expected) <= syncTolerance]_vars

\* C25: whenever the overlay is mounted its play flag equals the player's,
\* and its video is not paused only if the player is playing and the
\* overlay is visible.
C25_PlayFlagMirrors ==
    OverlayMounted =>
        /\ isPlaying = playing
        /\ ~overlayPaused => (playing /\ shouldShow)

-----------------------------------------------------------------------------
(* The crop box and its four fields                                        *)

CropFields == {"x", "y", "width", "height"}
CropFieldEntries ==
    {<<>>, <<"a">>, <<"-", "5">>, <<"9">>, <<"3", "0">>, <<"9", "9">>}

NextCropFields ==
    \/ \E p \in CropDownPointers : handleOverlayClick(p.x, p.y)
    \/ handleResetCrop
    \/ \E field \in CropFields, inputValue \in CropFieldEntries :
          handleCropInputBlur(field, inputValue)

SpecCropFields == InitCrop /\ [][NextCropFields]_vars

\* C26: committing an entry in one of the four fields of the crop box
\* leaves, for an integer entry, a box that has integer fields, lies in the
\* main video's frame and is at least minSize wide and high, and, for an
\* empty or non-numeric entry, the box that was there.
C26_FieldEditClamps ==
    [][\A field \in CropFields, inputValue \in CropFieldEntries :
          handleCropInputBlur(field, inputValue) =>
             IF inputValue = <<>> \/ parseIntSigned(inputValue).nan
             THEN cropArea' = cropArea
             ELSE RectangleInvariant(cropArea', mainVideo.width,
                                     mainVideo.height)]_vars

-----------------------------------------------------------------------------
(* Entries in the time fields that are not times                           *)

\* an empty entry, a blank one, one that is not a number, and a time
MalformedEntries == {<<>>, <<" ">>, <<"a">>}
FieldEntries == MalformedEntries \cup {<<"0", ".", "5">>}

NextEntries ==
    \/ \E video \in Cards : CardDoubleClick(video)
    \/ \E time \in RangeSeekTimes : handleSeek(time)
    \/ KeyDownS
    \/ KeyDownE
    \/ \E entry \in FieldEntries : handleStartTimeBlur(entry)
    \/ \E entry \in FieldEntries : handleEndTimeBlur(entry)
    \/ \E entry \in FieldEntries : handleDurationBlur(entry)
    \/ \E entry \in FieldEntries : handleMergeStartTimeBlur(entry)
    \/ \E newMode \in Modes : ModeButton(newMode)

SpecEntries == InitJobs /\ [][NextEntries]_vars

\* C27: committing the start, end or duration field in crop mode, or the
\* start field in merge mode, with an entry that is empty or is not a time
\* changes neither startTime nor endTime.
C27_MalformedEntryKeepsRange ==
    [][\A entry \in MalformedEntries :
          (\/ handleStartTimeBlur(entry)
           \/ handleEndTimeBlur(entry)
           \/ handleDurationBlur(entry)
           \/ handleMergeStartTimeBlur(entry))
          => (startTime' = startTime /\ endTime' = endTime)]_vars

-----------------------------------------------------------------------------
(* Files picked for upload                                                 *)

\* names, declared types and sizes of the files the user picks
FileNames ==
    {<<"a", ".", "m", "p", "4">>, <<"a", ".", "M", "O", "V">>,
     <<"a", ".", "f", "l", "v">>, <<"a", ".", "w", "m", "v">>,
     <<"a", ".", "t", "x", "t">>, <<"m", "p", "4">>}
FileTypes == {"video/mp4", "video/x-matroska", "video/x-flv", ""}
FileSizes == {1024, MAX_SIZE, MAX_SIZE + 1}
Files ==
    {[name |-> n, type |-> t, size |-> z] :
        n \in FileNames, t \in FileTypes, z \in FileSizes}

NextUpload ==
    \/ \E file \in Files, video \in CropVideos : handleFileChange(file, video)
    \/ \E file \in Files, video \in CropVideos : handleUpload(file, video)
    \/ \E u \in uploads : UploadDone(u)
    \/ \E u \in uploads : UploadFailed(u)
    \/ \E video \in Cards : CardDelete(video)
    \/ handleLoadedMetadata

SpecUpload == Init /\ [][NextUpload]_vars

\* the extensions and the declared types of the five accepted formats
AcceptedExtensions ==
    {<<"m", "p", "4">>, <<"m", "o", "v">>, <<"a", "v", "i">>,
     <<"w", "e", "b", "m">>, <<"m", "k", "v">>}
AcceptedFile(file) ==
    /\ \/ file.type \in ALLOWED_TYPES
       \/ \E ext \in AcceptedExtensions :
             /\ Len(file.name) > Len(ext)
             /\ file.name[Len(file.name) - Len(ext)] = "."
             /\ LowerCase(SubSeq(file.name, Len(file.name) - Len(ext) + 1,
                                 Len(file.name))) = ext
    /\ file.size <= MAX_SIZE

\* C28: picking a file whose extension and declared type are both outside
\* mp4, mov, avi, webm, mkv, or whose size is above 500 MiB, in the panel
\* or in the uploader, starts no upload and leaves the library and the main
\* video as they were.
C28_UploadValidation ==
    [][\A file \in Files, video \in CropVideos :
          ((handleFileChange(file, video) \/ handleUpload(file, video))
             /\ ~AcceptedFile(file))
          => /\ uploads' = uploads
             /\ allVideos' = allVideos
             /\ mainVideo' = mainVideo]_vars

-----------------------------------------------------------------------------
(* Properties of the crop gestures                                         *)

\* the handles that own each edge of the box
OwnsLeft == {"nw", "w", "sw"}
OwnsTop == {"nw", "n", "ne"}
OwnsRight == {"ne", "e", "se"}
OwnsBottom == {"sw", "s", "se"}

\* C29: wherever the pointer moves during a resize of a box that lay in the
\* frame, the edges of the rectangle handed to onChange that the handle
\* does not own are where they were when the gesture began.
C29_HandleOwnsEdges ==
    (GestureActive /\ resizing # "none"
        /\ RectangleInvariant(initialArea, videoWidth, videoHeight))
        => \A p \in CropPointers :
              LET r == gestureArea(p.x, p.y)
              IN  /\ resizing \notin OwnsLeft => r.x = initialArea.x
                  /\ resizing \notin OwnsTop => r.y = initialArea.y
                  /\ resizing \notin OwnsRight =>
                        r.x + r.width = initialArea.x + initialArea.width
                  /\ resizing \notin OwnsBottom =>
                        r.y + r.height = initialArea.y + initialArea.height

\* C30: pressing the box or a handle records the pointer and the box and
\* changes no box; every move during the gesture hands on the rectangle
\* computed from that record and the pointer; releasing clears the record
\* and changes no box; while no gesture is active neither a move nor a
\* release does anything.
C30_GestureLifecycle ==
    [][/\ \A p \in CropDownPointers, handle \in Handles \cup {"none"} :
             handleMouseDown(p.x, p.y, handle) =>
                /\ cropArea' = cropArea
                /\ initialArea' = cropArea
                /\ dragStart' = [x |-> p.x, y |-> p.y]
       /\ \A p \in CropMoves :
             handleMouseMove(p.x, p.y) =>
                /\ GestureActive
                /\ cropArea' = gestureArea(p.x, p.y)
                /\ UNCHANGED <<initialArea, dragStart, dragging, resizing>>
       /\ handleMouseUp =>
             /\ GestureActive
             /\ initialArea' = NULL
             /\ ~dragging'
             /\ resizing' = "none"
             /\ cropArea' = cropArea
       /\ ~(dragging \/ resizing # "none") =>
             /\ initialArea = NULL
             /\ \A p \in CropMoves : ~ENABLED handleMouseMove(p.x, p.y)
             /\ ~ENABLED handleMouseUp]_vars

\* a second move of a resize by the se handle has handed on a box that is
\* neither the one of the gesture's start nor the one of the first move
C30_Witness ==
    /\ GestureActive
    /\ resizing = "se"
    /\ cropArea = gestureArea(80, 72)
    /\ cropArea # initialArea
    /\ cropArea # gestureArea(250, 250)
    /\ gestureArea(250, 250) # initialArea

-----------------------------------------------------------------------------
(* Properties of the clamp and of the coordinate mapping                   *)

\* rectangles handed to clampArea: fields below 0, inside and beyond the
\* largest frame
ClampCoordinates == {-70, -1, 0, 5, 30, 50, 70}
ClampExtents == {-70, 0, 19, 20, 21, 47, 64, 70}
ClampInputs ==
    {[x |-> x, y |-> y, width |-> w, height |-> h] :
        x \in ClampCoordinates, y \in {-1, 30}, w \in ClampExtents,
        h \in {-70, 20, 47, 70}}

\* C31: in every frame, clampArea applied to the result of clampArea gives
\* that result again, for every rectangle of ClampInputs (evaluated once
\* per frame and player size, in the states without a crop box) and for
\* every rectangle the gesture under way can hand on.
C31_ClampIdempotent ==
    CropMounted =>
        /\ cropArea = NULL =>
              \A r \in ClampInputs :
                 clampArea(clampArea(r, 1), 1) = clampArea(r, 1)
        /\ (GestureActive /\ cropArea # NULL) =>
              \A p \in CropPointers :
                 clampArea(gestureArea(p.x, p.y), 1) = gestureArea(p.x, p.y)

\* a resize has handed on a rectangle that clampArea had to bring back into
\* the frame, in a frame at least minSize wide and high
C31_Witness ==
    /\ GestureActive
    /\ resizing = "se"
    /\ videoWidth >= minSize
    /\ cropArea = gestureArea(250, 250)
    /\ cropArea # clampAreaRoundOnly(
                     resizedArea("se", (250 - dragStart.x) * fit.scaleDen,
                                 (250 - dragStart.y) * fit.scaleDen,
                                 fit.scaleNum), fit.scaleNum)
    /\ clampArea(cropArea, 1) = cropArea

\* two rectangles whose fields differ by at most 1
Within1(a, b) ==
    /\ Abs(a.x - b.x) <= 1
    /\ Abs(a.y - b.y) <= 1
    /\ Abs(a.width - b.width) <= 1
    /\ Abs(a.height - b.height) <= 1

\* C32: in a player of positive width and height, toVideoCoords of
\* toContainerCoords of a rectangle with integer fields is within 1 of the
\* rectangle in each field, for every rectangle of ClampInputs (evaluated
\* in the states without a crop box) and for the crop box that is drawn.
C32_InverseMapping ==
    (CropMounted /\ containerWidth > 0 /\ containerHeight > 0) =>
        /\ cropArea = NULL =>
              \A r \in ClampInputs :
                 Within1(toVideoCoords(toContainerCoords(r)), r)
        /\ cropArea # NULL =>
              Within1(toVideoCoords(toContainerCoords(cropArea)), cropArea)

\* a crop box is drawn in a player where the frame is letterboxed above and
\* below, away from the frame's corner, and mapping it there and back gives
\* the box
C32_Witness ==
    /\ CropMounted
    /\ containerHeight > 0
    /\ fit.offsetY > 0
    /\ cropArea # NULL
    /\ cropArea.x > 0
    /\ cropArea.y > 0
    /\ toContainerCoords(cropArea).y > fit.offsetY
    /\ toVideoCoords(toContainerCoords(cropArea)) = cropArea

\* the sizes the player measures for its <video>: a real one, and rectangles
\* with no height or no extent at all
ViewportSizes ==
    {[width |-> 128, height |-> 96], [width |-> 128, height |-> 0],
     [width |-> 0, height |-> 0]}

NextViewport ==
    \/ \E size \in ViewportSizes : updateVideoSize(size)
    \/ \E p \in CropDownPointers : handleOverlayClick(p.x, p.y)
    \/ \E p \in CropDownPointers, handle \in Handles \cup {"none"} :
          handleMouseDown(p.x, p.y, handle)
    \/ handleMouseUp
    \/ handleResetCrop

SpecViewport == InitCrop /\ [][NextViewport]_vars

\* C33: whenever the crop overlay is rendered in a player whose measured
\* width or height is 0, its scale is 1 and its offsets are 0.
C33_DegenerateViewport ==
    (CropMounted /\ (containerWidth = 0 \/ containerHeight = 0)) =>
        /\ fit.scaleNum = fit.scaleDen
        /\ fit.offsetX = 0
        /\ fit.offsetY = 0

\* frames and players for the fit: <<videoWidth, videoHeight,
\* containerWidth, containerHeight>>
FitInputs ==
    {<<192, 108, 80, 40>>, <<192, 108, 80, 60>>,
     <<108, 192, 80, 40>>, <<64, 48, 128, 96>>, <<64, 48, 96, 96>>,
     <<64, 48, 96, 50>>, <<33, 17, 100, 7>>, <<7, 100, 33, 17>>}

\* what C34 asks of the fit f of a vw x vh frame in a cw x ch player, the
\* lengths of f being fractions over f.den
FitsAsClaimed(f, vw, vh, cw, ch) ==
    /\ IF vw * ch > cw * vh
       THEN /\ f.displayWidth = f.den * cw
            /\ f.offsetX = 0
            /\ 2 * f.offsetY + f.displayHeight = f.den * ch
       ELSE /\ f.displayHeight = f.den * ch
            /\ f.offsetY = 0
            /\ 2 * f.offsetX + f.displayWidth = f.den * cw
    /\ f.displayWidth * vh = f.displayHeight * vw
    /\ f.offsetX >= 0 /\ f.offsetY >= 0
    /\ f.offsetX + f.displayWidth <= f.den * cw
    /\ f.offsetY + f.displayHeight <= f.den * ch
    /\ f.scaleNum * vw * f.den = f.displayWidth * f.scaleDen

\* C34: with positive sizes, a frame wider in proportion than the player is
\* rendered at the player's width, at the left edge and centred vertically,
\* any other frame at the player's height, at the top and centred
\* horizontally; either way it keeps its proportions and lies in the
\* player.  Checked for the frame and player of every state with the crop
\* overlay, and for FitInputs, where 1920x1080 in 800x400 is fitted by
\* height.
C34_FitMapping ==
    /\ (CropMounted /\ containerWidth > 0 /\ containerHeight > 0) =>
          FitsAsClaimed(fit, videoWidth, videoHeight, containerWidth,
                        containerHeight)
    /\ \A i \in FitInputs :
          FitsAsClaimed(Fit(i[1], i[2], i[3], i[4]), i[1], i[2], i[3], i[4])
    /\ LET f == Fit(1920, 1080, 800, 400)
       IN  /\ f.offsetY = 0 /\ f.displayHeight = f.den * 400
           /\ 2 * f.offsetX + f.displayWidth = f.den * 800

\* the crop overlay is rendered over a frame fitted by width, with bars
\* above and below, and a crop box has been made on it
C34_Witness ==
    /\ CropMounted
    /\ videoWidth * containerHeight > containerWidth * videoHeight
    /\ fit.offsetY > 0
    /\ fit.offsetX = 0
    /\ cropArea # NULL

-----------------------------------------------------------------------------
(* Properties of the overlay box's corner handles                          *)

\* the corner of a rectangle opposite to a corner handle
OppositeCorner(handle, r) ==
    [x |-> IF handle \in {"nw", "sw"} THEN r.x + r.width ELSE r.x,
     y |-> IF handle \in {"nw", "ne"} THEN r.y + r.height ELSE r.y]

\* C35: a pointer move while the nw, ne or sw handle of the overlay box is
\* held keeps the corner opposite to that handle where it was; when the box
\* changes, the edges the handle owns are the ones that moved (x for nw and
\* sw, y for nw and ne).
C35_CornerHandles ==
    [][\A p \in OverlayMoves :
          (overlayMouseMove(p.x, p.y) /\ isResizing
             /\ resizeTarget \in {"nw", "ne", "sw"})
          => /\ OppositeCorner(resizeTarget, overlayPosition')
                  = OppositeCorner(resizeTarget, overlayPosition)
             /\ (overlayPosition'.width # overlayPosition.width
                   /\ resizeTarget \in {"nw", "sw"})
                  => overlayPosition'.x # overlayPosition.x
             /\ (overlayPosition'.height # overlayPosition.height
                   /\ resizeTarget \in {"nw", "ne"})
                  => overlayPosition'.y # overlayPosition.y]_vars

-----------------------------------------------------------------------------
(* Liveness of a job whose requests are all answered                       *)

\* cropVideo / overlayVideo resolve: the service accepts or refuses the job
ServedSubmitOutcomes == {result \in SubmitOutcomes : result.kind # "throws"}

\* getTaskStatus resolves with the task, and with a task that has ended
\* once the job has made MaxPolls requests
ServedPollResults(i) ==
    {result \in PollResults(i) :
        /\ result.kind = "data"
        /\ jobs[i].polls >= MaxPolls
              => result.status \in {"completed", "failed"}}

SubmitServed ==
    \E i \in 1..Len(jobs), result \in ServedSubmitOutcomes :
        SubmitResponse(i, result)

TimerFires == \E i \in 1..Len(jobs) : PollTimer(i)

PollServed ==
    \E i \in 1..Len(jobs) : \E result \in ServedPollResults(i) :
        PollResponse(i, result)

NextJobsServed ==
    \/ \E newMode \in Modes : ModeButton(newMode)
    \/ \E entry \in JobTimeEntries : handleStartTimeBlur(entry)
    \/ \E video \in Cards : CardDoubleClick(video)
    \/ \E video \in Cards \cap JobMainVideos : CardDragToMainSlot(video)
    \/ \E p \in JobPointers : handleOverlayClick(p.x, p.y)
    \/ handleConfirmCrop
    \/ handleConfirmOverlay
    \/ SubmitServed
    \/ TimerFires
    \/ PollServed

\* every pending fetch is answered and every setTimeout fires
SpecJobsServed ==
    /\ InitJobs
    /\ [][NextJobsServed]_vars
    /\ WF_vars(SubmitServed)
    /\ WF_vars(TimerFires)
    /\ WF_vars(PollServed)

PanelIdle == ~processing /\ task = NULL

JobInFlight(i) == i \in 1..Len(jobs) /\ jobs[i].phase # "stopped"

\* C36: when every request is answered with success and the task ends, a
\* submitted job leaves the in-flight state and the panel becomes idle
\* again (processing cleared, no task shown), and a job that has stopped
\* has put an asset in the library exactly when its task completed.
C36_JobTerminates ==
    /\ processing ~> PanelIdle
    /\ \A i \in 1..MaxJobs :
          JobInFlight(i) ~> (~JobInFlight(i) /\ PanelIdle)
    /\ [](\A i \in 1..Len(jobs) :
             /\ jobs[i].asset # NULL <=> jobs[i].outcome = "completed"
             /\ jobs[i].asset # NULL
                  => \E k \in 1..Len(allVideos) : allVideos[k] = jobs[i].asset)

\* a job completed at its second status request, after a timer re-armed
\* the poll, and the panel is idle with the asset in the library
C36_Witness ==
    /\ Len(jobs) >= 1
    /\ jobs[1].outcome = "completed"
    /\ jobs[1].polls = MaxPolls
    /\ PanelIdle
    /\ \E k \in 1..Len(allVideos) : allVideos[k] = jobs[1].asset

\* a submit request, a status request or a poll timer of job i is
\* outstanding
Outstanding(i) ==
    \/ jobs[i].phase = "submit"
    \/ jobs[i].requests > 0
    \/ jobs[i].timers # <<>>

\* C37: whenever the processing flag is set, some job has a submit request,
\* a status request or a poll timer outstanding; a panel whose jobs have
\* all stopped has the flag cleared and shows no task.
C37_NeverStuck ==
    /\ processing => \E i \in 1..Len(jobs) : Outstanding(i)
    /\ (\A i \in 1..Len(jobs) : ~Outstanding(i)) => PanelIdle

-----------------------------------------------------------------------------
(* Invariants of the session                                               *)

\* C38: a material is selected exactly when an overlay placement exists.
C38_SelectionHasPlacement ==
    selectedMaterial # NULL <=> overlayPosition # NULL

\* the events of a session: uploads, set-primary, select, drop, delete, and
\* a job from its submission to its completion
SessionDrops == {[x |-> 64, y |-> 48]}

JobCompletes ==
    \E i \in 1..Len(jobs) :
        \E result \in {r \in PollResults(i) :
                          r.kind = "data" /\ r.status = "completed"} :
            PollResponse(i, result)

NextSession ==
    \/ \E video \in SessionVideos, via \in {"panel", "uploader"} :
          UploadStart(video, via)
    \/ \E u \in uploads : UploadDone(u)
    \/ \E video \in Cards : CardDoubleClick(video)
    \/ \E video \in Cards : CardDelete(video)
    \/ \E video \in Cards : CardDragToMainSlot(video)
    \/ \E newMode \in Modes : ModeButton(newMode)
    \/ \E size \in SessionSizes : updateVideoSize(size)
    \/ \E card \in Cards, p \in SessionDrops : handleDrop(card, p.x, p.y)
    \/ handleConfirmCrop
    \/ \E i \in 1..Len(jobs) : SubmitResponse(i, [kind |-> "ok"])
    \/ JobCompletes

SpecSession == Init /\ [][NextSession]_vars

\* C39: the main video and the selected material, when present, are videos
\* of the library, and the selected material is not the main video.
C39_ReferentialIntegrity ==
    /\ mainVideo # NULL
          => \E i \in 1..Len(allVideos) : allVideos[i] = mainVideo
    /\ selectedMaterial # NULL
          => /\ \E i \in 1..Len(allVideos) : allVideos[i] = selectedMaterial
             /\ IdOf(selectedMaterial) # IdOf(mainVideo)

\* a material is selected beside a main video after the first main video
\* was deleted and a job's result was put in the library
C39_Witness ==
    /\ mainVideo # NULL
    /\ selectedMaterial # NULL
    /\ \E i \in 1..Len(allVideos) : allVideos[i].sourceType = "crop"
    /\ \E video \in SessionVideos : ~InLibrary(video.id)

\* C40: a click that previews a video other than the main video, and the
\* metadata report of the player while it shows such a video, leave
\* startTime, endTime, the crop region and the overlay placement unchanged.
C40_PreviewKeepsEdit ==
    [][(\/ \E video \in Cards :
             IdOf(video) # IdOf(mainVideo) /\ CardClick(video)
        \/ (mainVideo # NULL /\ IdOf(displayVideo) # IdOf(mainVideo)
              /\ handleLoadedMetadata))
       => UNCHANGED <<startTime, endTime, cropArea, overlayPosition>>]_vars

=============================================================================
